---------------------------- MODULE Spec2Model ----------------------------
(***************************************************************************)
(* Model of the fluent-wysiwyg-editor: the TextEditor component            *)
(* (src/app/src/MarkdownParser.ts, lines 107-483), its conversion adapter  *)
(* (src/app/src/Parser.ts) and the App host (src/app/src/App.tsx).         *)
(*                                                                         *)
(* Text is a sequence of one-character strings.  A document is a sequence  *)
(* of blocks; a block has a type, a depth and a sequence of characters,    *)
(* each with its set of inline styles and its link (NoLink or a url).      *)
(* A block's key is its index.  The operators named after draft-js,        *)
(* markdown-draft-js and draft-js-export-html functions model the library  *)
(* call the source makes.                                                  *)
(***************************************************************************)
EXTENDS Integers, Sequences, FiniteSets, TLC

\* ------------------------------------------------------------- bounds
\* User events per behaviour.
MaxEvents == 3
\* Characters of a document drawn as an input.
MaxChars == 2
\* Blocks of a document drawn as an input.
MaxBlocks == 2
\* Styled spans of a markdown line drawn as an input.
MaxSpans == 2
\* Characters of a text of spaces and newlines drawn as an input.
MaxBlank == 6

\* ------------------------------------------------------- program constants
\* const maxIntend = 4
maxIntend == 4

Styles == {"BOLD", "ITALIC", "UNDERLINE"}
NoLink == "none"
Urls == {"u", "v", ""}
\* The text of a url: one character, or none.
UrlText(url) == IF url = "" THEN <<>> ELSE <<url>>
ListTypes == {"unordered-list-item", "ordered-list-item"}
HeaderTypes == {"header-one", "header-two", "header-three"}
BlockTypes == {"unstyled", "paragraph"} \cup HeaderTypes \cup ListTypes
ContentTypes == {"markdown", "html"}

\* The keys of headingOptions.
headingOptions == <<"paragraph", "header-one", "header-two", "header-three">>

\* ------------------------------------------------------------ sequences
Range(s) == {s[i] : i \in 1..Len(s)}

RECURSIVE Flatten(_)
Flatten(ss) == IF ss = <<>> THEN <<>> ELSE Head(ss) \o Flatten(Tail(ss))

Repeat(x, n) == [i \in 1..n |-> x]

Min(a, b) == IF a < b THEN a ELSE b
Max(a, b) == IF a < b THEN b ELSE a

\* ------------------------------------------------- document state (draft-js)
Char(c, st, l) == [ch |-> c, style |-> st, link |-> l]
Block(t, d, cs) == [type |-> t, depth |-> d, chars |-> cs]
Pos(b, o) == [b |-> b, o |-> o]
NullOverride == [isNull |-> TRUE, style |-> {}]
Override(st) == [isNull |-> FALSE, style |-> st]

\* EditorState.createEmpty()
createEmpty ==
    [blocks |-> <<Block("unstyled", 0, <<>>)>>,
     anchor |-> Pos(1, 0), focus |-> Pos(1, 0),
     hasFocus |-> FALSE, override |-> NullOverride]

\* A createWithContent that keeps a content of no blocks.
createWithContentAsGiven(blocks) ==
    [blocks |-> blocks,
     anchor |-> Pos(1, 0), focus |-> Pos(1, 0),
     hasFocus |-> FALSE, override |-> NullOverride]

\* EditorState.createWithContent(contentState, decorator)
createWithContent(blocks) ==
    [blocks |-> IF blocks = <<>> THEN <<Block("unstyled", 0, <<>>)>> ELSE blocks,
     anchor |-> Pos(1, 0), focus |-> Pos(1, 0),
     hasFocus |-> FALSE, override |-> NullOverride]

Before(p, q) == p.b < q.b \/ (p.b = q.b /\ p.o < q.o)
isCollapsed(es) == es.anchor = es.focus
StartPos(es) == IF Before(es.focus, es.anchor) THEN es.focus ELSE es.anchor
EndPos(es) == IF Before(es.focus, es.anchor) THEN es.anchor ELSE es.focus

\* Whether character o (1-based) of block b lies in the selected range.
InSelection(es, b, o) ==
    LET s == StartPos(es)
        e == EndPos(es)
    IN  /\ (b > s.b \/ (b = s.b /\ o > s.o))
        /\ (b < e.b \/ (b = e.b /\ o <= e.o))

BlockLen(es, b) == Len(es.blocks[b].chars)

WellFormed(es) ==
    /\ Len(es.blocks) >= 1
    /\ es.anchor.b \in 1..Len(es.blocks)
    /\ es.focus.b \in 1..Len(es.blocks)
    /\ es.anchor.o \in 0..BlockLen(es, es.anchor.b)
    /\ es.focus.o \in 0..BlockLen(es, es.focus.b)

\* lookUpwardForInlineStyle: the last character of the closest non-empty
\* block above block b, else no style.
lookUpwardForInlineStyle(es, b) ==
    LET above == {i \in 1..(b - 1) : es.blocks[i].chars # <<>>}
    IN  IF above = {} THEN {}
        ELSE LET i == CHOOSE k \in above : \A j \in above : j <= k
             IN  es.blocks[i].chars[Len(es.blocks[i].chars)].style

\* EditorState.getCurrentInlineStyle()
getCurrentInlineStyle(es) ==
    LET s == StartPos(es)
        cs == es.blocks[s.b].chars
    IN  IF ~es.override.isNull THEN es.override.style
        ELSE IF isCollapsed(es)
        THEN IF s.o > 0 THEN cs[s.o].style
             ELSE IF Len(cs) > 0 THEN cs[1].style
             ELSE lookUpwardForInlineStyle(es, s.b)
        ELSE IF s.o < Len(cs) THEN cs[s.o + 1].style
             ELSE IF s.o > 0 THEN cs[s.o].style
             ELSE lookUpwardForInlineStyle(es, s.b)

\* DraftModifier.applyInlineStyle / removeInlineStyle over the selection.
modifyInlineStyle(es, inlineStyle, add) ==
    [b \in 1..Len(es.blocks) |->
        [es.blocks[b] EXCEPT !.chars =
            [o \in 1..Len(es.blocks[b].chars) |->
                IF InSelection(es, b, o)
                THEN [es.blocks[b].chars[o] EXCEPT !.style =
                        IF add THEN @ \cup {inlineStyle} ELSE @ \ {inlineStyle}]
                ELSE es.blocks[b].chars[o]]]]

\* RichUtils.toggleInlineStyle(editorState, inlineStyle)
toggleInlineStyle(es, inlineStyle) ==
    LET cur == getCurrentInlineStyle(es)
    IN  IF isCollapsed(es)
        THEN [es EXCEPT !.override =
                Override(IF inlineStyle \in cur THEN cur \ {inlineStyle}
                         ELSE cur \cup {inlineStyle})]
        ELSE [es EXCEPT !.blocks = modifyInlineStyle(es, inlineStyle, inlineStyle \notin cur),
                        !.override = NullOverride]

\* RichUtils.toggleBlockType(editorState, blockType)
toggleBlockType(es, blockType) ==
    LET s == StartPos(es)
        e == EndPos(es)
        trim == s.b # e.b /\ e.o = 0
        endKey == IF trim THEN e.b - 1 ELSE e.b
        typeToSet == IF es.blocks[s.b].type = blockType THEN "unstyled" ELSE blockType
        blocks == [b \in 1..Len(es.blocks) |->
                    IF b >= s.b /\ b <= endKey
                    THEN [es.blocks[b] EXCEPT !.type = typeToSet, !.depth = 0]
                    ELSE es.blocks[b]]
    IN  IF trim
        THEN [es EXCEPT !.blocks = blocks, !.anchor = s,
                        !.focus = Pos(endKey, Len(es.blocks[endKey].chars))]
        ELSE [es EXCEPT !.blocks = blocks]

\* RichUtils.toggleLink(editorState, targetSelection, entityKey): the entity,
\* or none with a null key, on the characters of the selection; the change
\* is pushed as 'apply-entity'.
toggleLink(es, link) ==
    [es EXCEPT !.blocks =
        [b \in 1..Len(es.blocks) |->
            [es.blocks[b] EXCEPT !.chars =
                [o \in 1..Len(es.blocks[b].chars) |->
                    IF InSelection(es, b, o)
                    THEN [es.blocks[b].chars[o] EXCEPT !.link = link]
                    ELSE es.blocks[b].chars[o]]]],
               !.override = NullOverride]

\* RichUtils.onTab(event, editorState, maxDepth); shiftKey is event.shiftKey.
\* same tells that the editor state given is returned as it is.
RichUtils_onTab(shiftKey, es, maxDepth) ==
    LET key == es.anchor.b
        block == es.blocks[key]
        adjusted == Max(0, Min(block.depth + (IF shiftKey THEN -1 ELSE 1), maxDepth))
    IN  IF \/ key # es.focus.b
           \/ block.type \notin ListTypes
           \/ (~shiftKey /\ block.depth = maxDepth)
        THEN [same |-> TRUE, state |-> es]
        ELSE [same |-> FALSE, state |-> [es EXCEPT !.blocks[key].depth = adjusted]]

\* ------------------------------------------- markdown export (Parser.ts)
\* Export options without the custom style item: the library's own items only.
draftToMarkdownLibraryItems == [style \in {} |-> [open |-> <<>>, close |-> <<>>]]

\* draftToMarkdownOptions.styleItems: UNDERLINE opens and closes with '++'.
draftToMarkdownOptions ==
    [UNDERLINE |-> [open |-> <<"+", "+">>, close |-> <<"+", "+">>]]

\* The library's own inline items, overridden by the custom ones
\* (customStyleItems[style] || StyleItems[style]).
InlineItem(style) ==
    IF style \in DOMAIN draftToMarkdownOptions THEN draftToMarkdownOptions[style]
    ELSE IF style = "BOLD" THEN [open |-> <<"*", "*">>, close |-> <<"*", "*">>]
    ELSE IF style = "ITALIC" THEN [open |-> <<"_">>, close |-> <<"_">>]
    ELSE [open |-> <<>>, close |-> <<>>]

Digit(n) == <<"0", "1", "2", "3", "4", "5", "6", "7", "8", "9">>[n + 1]

\* The inline style ranges and entity ranges of a block as tags: a tag covers
\* characters from..to.
StyleTags(cs) ==
    {t \in [kind : {"style"}, name : Styles, from : 1..Len(cs), to : 1..Len(cs)] :
        /\ t.from <= t.to
        /\ \A i \in t.from..t.to : t.name \in cs[i].style
        /\ (t.from = 1 \/ t.name \notin cs[t.from - 1].style)
        /\ (t.to = Len(cs) \/ t.name \notin cs[t.to + 1].style)}

EntityTags(cs) ==
    {t \in [kind : {"entity"}, name : Urls, from : 1..Len(cs), to : 1..Len(cs)] :
        /\ t.from <= t.to
        /\ \A i \in t.from..t.to : cs[i].link = t.name
        /\ (t.from = 1 \/ cs[t.from - 1].link # t.name)
        /\ (t.to = Len(cs) \/ cs[t.to + 1].link # t.name)}

StyleOrder(name) == CASE name = "BOLD" -> 1 [] name = "ITALIC" -> 2
                      [] name = "UNDERLINE" -> 3 [] OTHER -> 4

\* A set of tags as a sequence: tags that close last come first
\* (compareTagsLastCloseFirst), styles before entities otherwise.
RECURSIVE SortTags(_)
SortTags(tags) ==
    IF tags = {} THEN <<>>
    ELSE LET t == CHOOSE x \in tags : \A y \in tags :
                    \/ x.to > y.to
                    \/ (x.to = y.to /\ StyleOrder(x.name) <= StyleOrder(y.name))
         IN  <<t>> \o SortTags(tags \ {t})

OpenText(t) == IF t.kind = "style" THEN InlineItem(t.name).open ELSE <<"[">>
CloseText(t) ==
    IF t.kind = "style" THEN InlineItem(t.name).close
    ELSE <<"]", "(">> \o UrlText(t.name) \o <<")">>

Reverse(s) == [i \in 1..Len(s) |-> s[Len(s) + 1 - i]]

\* Close the open tags that ended before character i, topmost first; the
\* tags above a closing tag are closed and reopened.  Returns the text
\* written and the stack left.
RECURSIVE CloseEnded(_, _, _)
CloseEnded(open, i, out) ==
    LET ended == {k \in 1..Len(open) : open[k].to < i}
    IN  IF ended = {} THEN [open |-> open, out |-> out]
        ELSE LET k == CHOOSE x \in ended : \A y \in ended : y <= x
                 above == SubSeq(open, k + 1, Len(open))
                 reopened == SortTags(Range(above))
             IN  CloseEnded(
                    SubSeq(open, 1, k - 1) \o reopened, i,
                    out \o Flatten([j \in 1..Len(above) |-> CloseText(Reverse(above)[j])])
                        \o CloseText(open[k])
                        \o Flatten([j \in 1..Len(reopened) |-> OpenText(reopened[j])]))

\* The text of a block's characters from character i on, with `open` the
\* stack of open tags.
RECURSIVE RenderChars(_, _, _, _)
RenderChars(cs, tags, i, open) ==
    LET closed == CloseEnded(open, i, <<>>)
    IN  IF i > Len(cs) THEN closed.out
        ELSE LET toOpen == SortTags({t \in tags : t.from = i})
             IN  closed.out
                 \o Flatten([j \in 1..Len(toOpen) |-> OpenText(toOpen[j])])
                 \o <<cs[i].ch>>
                 \o RenderChars(cs, tags, i + 1, closed.open \o toOpen)

RenderInline(cs) == RenderChars(cs, StyleTags(cs) \cup EntityTags(cs), 1, <<>>)

\* The block types the library has a block item for.
HasBlockItem(type) == type \in HeaderTypes \cup ListTypes

\* The opening text of a block item; number is the ordered list number.
BlockOpen(type, depth, number) ==
    CASE type = "header-one" -> <<"#", " ">>
      [] type = "header-two" -> <<"#", "#", " ">>
      [] type = "header-three" -> <<"#", "#", "#", " ">>
      [] type = "unordered-list-item" -> Repeat(" ", depth * 4) \o <<"-", " ">>
      [] type = "ordered-list-item" ->
            Repeat(" ", depth * 4) \o <<Digit(number), ".", " ">>
      [] OTHER -> <<>>

\* renderBlock: the markdown of block i, without what follows it.  An empty
\* block is rendered as 'unstyled'.
EffectiveType(block) == IF block.chars = <<>> THEN "unstyled" ELSE block.type

RenderBlockText(block, number) ==
    BlockOpen(EffectiveType(block), block.depth, number) \o RenderInline(block.chars)

\* The newlines after block i.
BlockSeparator(blocks, i) ==
    IF i = Len(blocks) THEN <<>>
    ELSE IF EffectiveType(blocks[i]) \in ListTypes /\ blocks[i + 1].type \in ListTypes
    THEN <<"\n">>
    ELSE IF blocks[i].chars # <<>> THEN <<"\n", "\n">>
    ELSE <<>>

\* The ordered list counters after rendering a block: nums maps a depth to
\* the next number.
NextNumbering(block, st) ==
    LET type == EffectiveType(block)
        d == block.depth
        bumped == [st.nums EXCEPT ![d] = @ + 1]
    IN  IF ~HasBlockItem(type) THEN st
        ELSE IF type = "ordered-list-item"
        THEN [nums |-> IF st.prev > d THEN [bumped EXCEPT ![st.prev] = 1] ELSE bumped,
              prev |-> d]
        ELSE [nums |-> [k \in DOMAIN st.nums |-> 1], prev |-> st.prev]

RECURSIVE RenderBlocks(_, _, _)
RenderBlocks(blocks, i, st) ==
    IF i > Len(blocks) THEN <<>>
    ELSE RenderBlockText(blocks[i], st.nums[blocks[i].depth])
         \o BlockSeparator(blocks, i)
         \o RenderBlocks(blocks, i + 1, NextNumbering(blocks[i], st))

\* draftToMarkdown(rawDraftContent, draftToMarkdownOptions)
draftToMarkdown(blocks) ==
    RenderBlocks(blocks, 1, [nums |-> [d \in 0..(maxIntend + 2) |-> 1], prev |-> 0])

\* exportEditorStateToMarkdownString(editorState)
exportEditorStateToMarkdownString(es) == draftToMarkdown(es.blocks)

\* ----------------------------------------------- HTML export (Parser.ts)
\* The element of a block type (draft-js-export-html getTags).
BlockTag(type) ==
    CASE type = "header-one" -> "h1"
      [] type = "header-two" -> "h2"
      [] type = "header-three" -> "h3"
      [] type \in ListTypes -> "li"
      [] OTHER -> "p"

WrapperTag(type) ==
    CASE type = "unordered-list-item" -> "ul"
      [] type = "ordered-list-item" -> "ol"
      [] OTHER -> ""

StartTag(name) == <<"<", name, ">">>
EndTag(name) == <<"<", "/", name, ">">>

\* One character with its style elements (BOLD innermost) and its link.
HtmlChar(c) ==
    LET bold == IF "BOLD" \in c.style
                THEN StartTag("strong") \o <<c.ch>> \o EndTag("strong") ELSE <<c.ch>>
        ital == IF "ITALIC" \in c.style
                THEN StartTag("em") \o bold \o EndTag("em") ELSE bold
        und == IF "UNDERLINE" \in c.style
               THEN StartTag("u") \o ital \o EndTag("u") ELSE ital
    IN  IF c.link = NoLink THEN und
        ELSE <<"<", "a", " ", "href", "=">> \o UrlText(c.link) \o <<">">> \o und \o EndTag("a")

\* The content of a block: style pieces in order; an empty block is <br>.
HtmlContent(cs) ==
    IF cs = <<>> THEN StartTag("br")
    ELSE Flatten([i \in 1..Len(cs) |-> HtmlChar(cs[i])])

HtmlBlock(blocks, i) ==
    LET b == blocks[i]
        w == WrapperTag(b.type)
        opens == w # "" /\ (i = 1 \/ WrapperTag(blocks[i - 1].type) # w)
        closes == w # "" /\ (i = Len(blocks) \/ WrapperTag(blocks[i + 1].type) # w)
    IN  (IF opens THEN StartTag(w) \o <<"\n">> ELSE <<>>)
        \o Repeat(" ", 2 * b.depth)
        \o StartTag(BlockTag(b.type)) \o HtmlContent(b.chars) \o EndTag(BlockTag(b.type))
        \o (IF closes THEN <<"\n">> \o EndTag(w) ELSE <<>>)
        \o (IF i < Len(blocks) THEN <<"\n">> ELSE <<>>)

\* stateToHTML(draftContent)
stateToHTML(blocks) == Flatten([i \in 1..Len(blocks) |-> HtmlBlock(blocks, i)])

\* exportEditorStateToHtmlString(editorState)
exportEditorStateToHtmlString(es) == stateToHTML(es.blocks)

\* ------------------------------------------- markdown import (Parser.ts)
\* Import options that leave the 'ins' inline rule disabled, as the parser's
\* default preset does.
markdownToDraftWithoutIns == [blockStyles |-> [ins_open |-> "UNDERLINE"], enable |-> {}]

\* markdownToDraftOptions: the 'ins' inline rule is enabled and ins_open is
\* mapped to the UNDERLINE style.
markdownToDraftOptions ==
    [blockStyles |-> [ins_open |-> "UNDERLINE"], enable |-> {"ins"}]

\* Whether text s holds the text d at index i.
HasAt(s, i, d) ==
    /\ i >= 1
    /\ i + Len(d) - 1 <= Len(s)
    /\ \A k \in 1..Len(d) : s[i + k - 1] = d[k]

\* The delimiters of the inline rules and the style each one gives.
InlineRules ==
    <<[d |-> <<"*", "*">>, style |-> "BOLD"],
      [d |-> <<"_", "_">>, style |-> "BOLD"]>>
    \o (IF "ins" \in markdownToDraftOptions.enable
        THEN <<[d |-> <<"+", "+">>, style |-> markdownToDraftOptions.blockStyles.ins_open]>>
        ELSE <<>>)
    \o <<[d |-> <<"*">>, style |-> "ITALIC"],
         [d |-> <<"_">>, style |-> "ITALIC"]>>

\* The index where delimiter d, opened at the head of s, closes: the first
\* later occurrence that follows a character that is not a space; 0 when
\* there is none or the text after the opening starts with a space.
ClosingAt(s, d) ==
    LET n == Len(d)
        cands == {i \in (n + 2)..(Len(s) - n + 1) : HasAt(s, i, d) /\ s[i - 1] # " "}
    IN  IF ~HasAt(s, 1, d) \/ Len(s) < 2 * n + 1 \/ s[n + 1] = " " \/ cands = {} THEN 0
        ELSE CHOOSE i \in cands : \A j \in cands : i <= j

\* The first inline rule that applies at the head of s, 0 when none does.
RuleAt(s) ==
    LET ok == {r \in 1..Len(InlineRules) : ClosingAt(s, InlineRules[r].d) > 0}
    IN  IF ok = {} THEN 0 ELSE CHOOSE r \in ok : \A q \in ok : r <= q

\* A link [text](url) at the head of s: where "](" and ")" are, 0 when
\* there is no link.
LinkMid(s) ==
    LET cands == {i \in 3..(Len(s) - 2) : HasAt(s, i, <<"]", "(">>)}
    IN  IF s = <<>> \/ s[1] # "[" \/ cands = {} THEN 0
        ELSE CHOOSE i \in cands : \A j \in cands : i <= j
LinkEnd(s) ==
    LET m == LinkMid(s)
        cands == {i \in (m + 3)..Len(s) : s[i] = ")"}
    IN  IF m = 0 \/ cands = {} THEN 0
        ELSE CHOOSE i \in cands : \A j \in cands : i <= j

\* The characters of inline markdown s, inside the styles st and the link l.
RECURSIVE ParseInline(_, _, _)
ParseInline(s, st, l) ==
    IF s = <<>> THEN <<>>
    ELSE IF RuleAt(s) > 0
    THEN LET r == InlineRules[RuleAt(s)]
             n == Len(r.d)
             c == ClosingAt(s, r.d)
         IN  ParseInline(SubSeq(s, n + 1, c - 1), st \cup {r.style}, l)
             \o ParseInline(SubSeq(s, c + n, Len(s)), st, l)
    ELSE IF LinkEnd(s) > 0 /\ Len(SubSeq(s, LinkMid(s) + 2, LinkEnd(s) - 1)) = 1
    THEN ParseInline(SubSeq(s, 2, LinkMid(s) - 1), st, s[LinkMid(s) + 2])
         \o ParseInline(SubSeq(s, LinkEnd(s) + 1, Len(s)), st, l)
    ELSE <<Char(s[1], st, l)>> \o ParseInline(Tail(s), st, l)

\* The lines of a text.
RECURSIVE SplitLines(_, _)
SplitLines(s, cur) ==
    IF s = <<>> THEN <<cur>>
    ELSE IF Head(s) = "\n" THEN <<cur>> \o SplitLines(Tail(s), <<>>)
    ELSE SplitLines(Tail(s), Append(cur, Head(s)))

LeadingSpaces(line) ==
    LET n == {k \in 0..Len(line) : \A i \in 1..k : line[i] = " "}
    IN  CHOOSE k \in n : \A j \in n : j <= k

IsBlank(line) == LeadingSpaces(line) = Len(line)

Digits == {"0", "1", "2", "3", "4", "5", "6", "7", "8", "9"}

\* The block a line opens: its type, its depth and where its content starts.
LineKind(line) ==
    LET sp == LeadingSpaces(line)
        t == SubSeq(line, sp + 1, Len(line))
    IN  IF sp < 4 /\ HasAt(t, 1, <<"#", "#", "#", " ">>)
            THEN [type |-> "header-three", depth |-> 0, from |-> sp + 5]
        ELSE IF sp < 4 /\ HasAt(t, 1, <<"#", "#", " ">>)
            THEN [type |-> "header-two", depth |-> 0, from |-> sp + 4]
        ELSE IF sp < 4 /\ HasAt(t, 1, <<"#", " ">>)
            THEN [type |-> "header-one", depth |-> 0, from |-> sp + 3]
        ELSE IF Len(t) >= 3 /\ t[1] \in {"-", "*", "+"} /\ t[2] = " "
            THEN [type |-> "unordered-list-item", depth |-> sp \div 4, from |-> sp + 3]
        ELSE IF Len(t) >= 4 /\ t[1] \in Digits /\ t[2] = "." /\ t[3] = " "
            THEN [type |-> "ordered-list-item", depth |-> sp \div 4, from |-> sp + 4]
        ELSE [type |-> "unstyled", depth |-> 0, from |-> sp + 1]

\* The blocks of the lines from line i on; open tells whether the block
\* before is a paragraph that the next line continues.
RECURSIVE ParseLines(_, _, _, _)
ParseLines(lines, i, acc, open) ==
    IF i > Len(lines) THEN acc
    ELSE IF IsBlank(lines[i]) THEN ParseLines(lines, i + 1, acc, FALSE)
    ELSE LET k == LineKind(lines[i])
             text == SubSeq(lines[i], k.from, Len(lines[i]))
         IN  IF k.type = "unstyled" /\ open
             THEN ParseLines(lines, i + 1,
                    [acc EXCEPT ![Len(acc)].chars = @ \o <<Char("\n", {}, NoLink)>>
                                                      \o ParseInline(text, {}, NoLink)],
                    TRUE)
             ELSE ParseLines(lines, i + 1,
                    Append(acc, Block(k.type, k.depth, ParseInline(text, {}, NoLink))),
                    k.type = "unstyled")

\* markdownToDraft(markdownString, markdownToDraftOptions)
markdownToDraft(markdownString) == ParseLines(SplitLines(markdownString, <<>>), 1, <<>>, FALSE)

\* getEditorStateFromMarkdown(markdownString)
getEditorStateFromMarkdown(markdownString) ==
    createWithContent(markdownToDraft(markdownString))

\* ----------------------------------------------- HTML import (Parser.ts)
\* The first index from which d is found in s at or after i, 0 if none.
RECURSIVE FindAt(_, _, _)
FindAt(s, d, i) ==
    IF i + Len(d) - 1 > Len(s) THEN 0
    ELSE IF HasAt(s, i, d) THEN i
    ELSE FindAt(s, d, i + 1)

\* The inline style of an element (draft-js convertFromHTML, inlineTags).
HtmlStyle(name) ==
    CASE name = "strong" -> "BOLD"
      [] name = "em" -> "ITALIC"
      [] name = "u" -> "UNDERLINE"

AnchorStart == <<"<", "a", " ", "href", "=">>

\* The characters of inline content: an inline element gives its style to
\* what it holds, an anchor its entity, <br> a soft newline.
RECURSIVE ParseHtmlInline(_, _, _)
ParseHtmlInline(s, st, l) ==
    IF s = <<>> THEN <<>>
    ELSE IF /\ Len(s) >= 3 /\ s[1] = "<" /\ s[2] \in {"strong", "em", "u"} /\ s[3] = ">"
            /\ FindAt(s, EndTag(s[2]), 4) > 0
    THEN LET c == FindAt(s, EndTag(s[2]), 4)
         IN  ParseHtmlInline(SubSeq(s, 4, c - 1), st \cup {HtmlStyle(s[2])}, l)
             \o ParseHtmlInline(SubSeq(s, c + 4, Len(s)), st, l)
    ELSE IF /\ HasAt(s, 1, AnchorStart)
            /\ FindAt(s, <<">">>, 6) \in {6, 7}
            /\ FindAt(s, EndTag("a"), 7) > 0
    THEN LET g == FindAt(s, <<">">>, 6)
             c == FindAt(s, EndTag("a"), g + 1)
             url == SubSeq(s, 6, g - 1)
         IN  ParseHtmlInline(SubSeq(s, g + 1, c - 1), st, IF url = <<>> THEN l ELSE url[1])
             \o ParseHtmlInline(SubSeq(s, c + 4, Len(s)), st, l)
    ELSE IF HasAt(s, 1, StartTag("br"))
    THEN <<Char("\n", st, l)>> \o ParseHtmlInline(SubSeq(s, 4, Len(s)), st, l)
    ELSE <<Char(s[1], st, l)>> \o ParseHtmlInline(Tail(s), st, l)

\* The text of a block without the newlines at its ends.
RECURSIVE TrimBlockText(_)
TrimBlockText(cs) ==
    IF cs = <<>> THEN cs
    ELSE IF cs[1].ch = "\n" THEN TrimBlockText(Tail(cs))
    ELSE IF cs[Len(cs)].ch = "\n" THEN TrimBlockText(SubSeq(cs, 1, Len(cs) - 1))
    ELSE cs

\* The block type of an element; a list item takes it from the list around it.
HtmlBlockType(name, wrapper) ==
    CASE name = "h1" -> "header-one"
      [] name = "h2" -> "header-two"
      [] name = "h3" -> "header-three"
      [] name = "li" -> IF wrapper = "ol" THEN "ordered-list-item"
                        ELSE "unordered-list-item"
      [] OTHER -> "unstyled"

\* The blocks of the elements of s; white space between them is dropped, and
\* text outside any block element is an unstyled block. Lists are not nested.
RECURSIVE ParseHtmlBlocks(_, _, _)
ParseHtmlBlocks(s, wrapper, acc) ==
    IF s = <<>> THEN acc
    ELSE IF s[1] \in {"\n", " "} THEN ParseHtmlBlocks(Tail(s), wrapper, acc)
    ELSE IF HasAt(s, 1, StartTag("ul")) \/ HasAt(s, 1, StartTag("ol"))
    THEN ParseHtmlBlocks(SubSeq(s, 4, Len(s)), s[2], acc)
    ELSE IF HasAt(s, 1, EndTag("ul")) \/ HasAt(s, 1, EndTag("ol"))
    THEN ParseHtmlBlocks(SubSeq(s, 5, Len(s)), "", acc)
    ELSE IF /\ Len(s) >= 3 /\ s[1] = "<" /\ s[2] \in {"p", "h1", "h2", "h3", "li"}
            /\ s[3] = ">" /\ FindAt(s, EndTag(s[2]), 4) > 0
    THEN LET c == FindAt(s, EndTag(s[2]), 4)
             cs == TrimBlockText(ParseHtmlInline(SubSeq(s, 4, c - 1), {}, NoLink))
         IN  ParseHtmlBlocks(SubSeq(s, c + 4, Len(s)), wrapper,
                             Append(acc, Block(HtmlBlockType(s[2], wrapper), 0, cs)))
    ELSE LET n == FindAt(s, <<"\n">>, 1)
             e == IF n = 0 THEN Len(s) ELSE n - 1
         IN  ParseHtmlBlocks(SubSeq(s, e + 1, Len(s)), wrapper,
                 Append(acc, Block("unstyled", 0, ParseHtmlInline(SubSeq(s, 1, e), {}, NoLink))))

\* convertFromHTML(html).contentBlocks
convertFromHTML(html) == ParseHtmlBlocks(html, "", <<>>)

\* getEditorStateFromHtml(html)
getEditorStateFromHtml(html) == createWithContent(convertFromHTML(html))

\* ------------------------------------------------ editing (draft-js Editor)
\* The texts a user types or pastes, by name.
Texts == [a |-> <<"a">>, item |-> <<"i", "t", "e", "m">>]

\* The link a typed character inherits: the entity on both sides of the cursor.
InheritedLink(es) ==
    LET p == es.anchor
        cs == es.blocks[p.b].chars
    IN  IF p.o > 0 /\ p.o < Len(cs) /\ cs[p.o].link = cs[p.o + 1].link
        THEN cs[p.o].link ELSE NoLink

\* DraftModifier.insertText at a collapsed selection, then EditorState.push.
insertText(es, text, style, link) ==
    LET p == es.anchor
        cs == es.blocks[p.b].chars
        new == [i \in 1..Len(text) |-> Char(text[i], style, link)]
    IN  [es EXCEPT !.blocks[p.b].chars =
                        SubSeq(cs, 1, p.o) \o new \o SubSeq(cs, p.o + 1, Len(cs)),
                   !.anchor = Pos(p.b, p.o + Len(text)),
                   !.focus = Pos(p.b, p.o + Len(text)),
                   !.override = NullOverride]

\* DraftModifier.splitBlock at a collapsed selection: the new block keeps
\* the type and the depth.
splitBlock(es) ==
    LET p == es.anchor
        b == es.blocks[p.b]
        upper == [b EXCEPT !.chars = SubSeq(b.chars, 1, p.o)]
        lower == [b EXCEPT !.chars = SubSeq(b.chars, p.o + 1, Len(b.chars))]
    IN  [es EXCEPT !.blocks = SubSeq(es.blocks, 1, p.b - 1) \o <<upper, lower>>
                                \o SubSeq(es.blocks, p.b + 1, Len(es.blocks)),
                   !.anchor = Pos(p.b + 1, 0),
                   !.focus = Pos(p.b + 1, 0)]

\* RichUtils.insertSoftNewline(editorState)
insertSoftNewline(es) ==
    [insertText(es, <<"\n">>, getCurrentInlineStyle(es), NoLink) EXCEPT !.hasFocus = TRUE]

\* EditorState.acceptSelection / forceSelection with a focused selection.
acceptSelection(es, a, f) ==
    [es EXCEPT !.anchor = a, !.focus = f, !.hasFocus = TRUE, !.override = NullOverride]

Positions(es) ==
    UNION {{Pos(b, o) : o \in 0..BlockLen(es, b)} : b \in 1..Len(es.blocks)}

\* ----------------------------------------------------------------- state
VARIABLES
    \* TextEditor: React state and what the last render captured
    editorState, renderedState, props,
    selectedHeading, isBoldActive, isItalicActive, isUnderlineActive,
    isOrderedListActive, isUnorderedListActive,
    urlValue, isUrlInputVisible,
    \* App: React state
    stringContent, selectedContentType, isDarkModeEnabled,
    \* React: what is pending
    phase, appDirty, editorDirty, esChanged, exportDue, indicatorsDue,
    initialiseDue, timers,
    \* what happened: the user events so far, the last one, the last value
    \* given to handleContentUpdate, a bit flipped by every call of it, whether
    \* a document state was set that no call has reported yet, and the
    \* document state the behaviour started from
    events, lastOp, delivered, calls, exportPending, baseState,
    \* the conversion adapter applied on its own
    convStage, convIn, convDoc, convOut

indicators == <<selectedHeading, isBoldActive, isItalicActive, isUnderlineActive,
                isOrderedListActive, isUnorderedListActive>>
dialog == <<urlValue, isUrlInputVisible>>
appState == <<stringContent, selectedContentType, isDarkModeEnabled>>
effects == <<exportDue, indicatorsDue, initialiseDue>>
reported == <<delivered, calls>>
conv == <<convStage, convIn, convDoc, convOut>>
vars == <<editorState, renderedState, props, indicators, dialog, appState,
          phase, appDirty, editorDirty, esChanged, effects, timers,
          events, lastOp, reported, exportPending, baseState, conv>>

Ev(op, arg) == [op |-> op, arg |-> arg]

\* The initial value of the editorState hook: the markdown parsed when
\* there is a text and the content type is 'markdown', else the empty state
\* (the App mounts the TextEditor with initialContent = '', for which the
\* 'html' branch gives the empty state as well).
\* An initial value that parses markdown only.
InitialEditorStateOfMarkdown(initialContent, contentType) ==
    IF initialContent # <<>> /\ contentType = "markdown"
    THEN getEditorStateFromMarkdown(initialContent)
    ELSE createEmpty

\* The initial value of the editorState hook.
InitialEditorState(initialContent, contentType) ==
    IF initialContent # <<>> /\ contentType = "markdown"
    THEN getEditorStateFromMarkdown(initialContent)
    ELSE IF initialContent # <<>> /\ contentType = "html"
    THEN getEditorStateFromHtml(initialContent)
    ELSE createEmpty

\* The App's first render of the TextEditor.
InitialProps == [initialContent |-> <<>>, contentType |-> "markdown"]

\* What every specification starts with, the document state apart.
MountedBy(firstProps, es) ==
    /\ editorState = es
    /\ renderedState = es
    /\ baseState = es
    /\ props = firstProps
    /\ selectedHeading = "paragraph"
    /\ isBoldActive = FALSE /\ isItalicActive = FALSE /\ isUnderlineActive = FALSE
    /\ isOrderedListActive = FALSE /\ isUnorderedListActive = FALSE
    /\ urlValue = <<>> /\ isUrlInputVisible = FALSE
    /\ stringContent = firstProps.initialContent
    /\ selectedContentType = firstProps.contentType
    /\ isDarkModeEnabled = FALSE
    /\ phase = "export" /\ appDirty = FALSE /\ editorDirty = FALSE
    /\ esChanged = FALSE /\ exportDue = TRUE /\ indicatorsDue = TRUE
    /\ initialiseDue = FALSE
    /\ timers = 0
    /\ events = 0 /\ lastOp = [op |-> "mount", arg |-> "", prev |-> Ev("none", "")]
    /\ delivered = <<>> /\ calls = FALSE /\ exportPending = TRUE

\* The mount by the App.
MountedWith(es) == MountedBy(InitialProps, es)

ConvIdle ==
    /\ convStage = "off" /\ convIn = <<>> /\ convDoc = <<>> /\ convOut = <<>>

\* The App renders once; the TextEditor is created from initialContent = ''.
Init ==
    /\ MountedWith(InitialEditorState(InitialProps.initialContent, InitialProps.contentType))
    /\ ConvIdle

\* ------------------------------------------------------- TextEditor handlers
\* A style button that applies the style to a selected range and never
\* removes it.
applyInlineStyleOnly(es, inlineStyle) ==
    IF isCollapsed(es) THEN toggleInlineStyle(es, inlineStyle)
    ELSE [es EXCEPT !.blocks = modifyInlineStyle(es, inlineStyle, TRUE),
                    !.override = NullOverride]

\* applyInlineStyle: both branches set the toggled state.
applyInlineStyle(es, inlineStyle) == toggleInlineStyle(es, inlineStyle)

\* A block style handler that sets the state it was given.
applyBlockStyleDropped(es, blockStyle) == es

\* applyBlockStyle: setEditorState(RichUtils.toggleBlockType(editorState, blockStyle))
applyBlockStyle(es, blockStyle) == toggleBlockType(es, blockStyle)

\* A Tab handler that allows one level more than maxIntend.
onTabOneDeeper(shiftKey, es) == RichUtils_onTab(shiftKey, es, maxIntend + 1)

\* Parser's createEditorStateFromContent(contentState): a new editor state
\* with the content, as the other functions of Parser.ts create one.
createEditorStateFromContent(blocks) == createWithContent(blocks)

\* The url of the entity addLink creates:
\* createEntity('LINK', 'MUTABLE', { url: urlValue, target: '_blank' })
createEntity(url) == IF url = <<>> THEN "" ELSE url[1]

\* An addLink that links the whole block of the selection's start.
addLinkWholeBlock(es, url) ==
    createEditorStateFromContent(
        [b \in 1..Len(es.blocks) |->
            IF b # StartPos(es).b THEN es.blocks[b]
            ELSE [es.blocks[b] EXCEPT !.chars =
                    [o \in 1..Len(es.blocks[b].chars) |->
                        [es.blocks[b].chars[o] EXCEPT !.link = createEntity(url)]]]])

\* addLink: the entity toggled on the selection, in a new editor state.
addLink(es, url) ==
    createEditorStateFromContent(toggleLink(es, createEntity(url)).blocks)

\* A removeLink that does not look at the selection.
removeLinkAlways(es) == [set |-> TRUE, state |-> toggleLink(es, NoLink)]

\* removeLink: with a selection that is not collapsed the links of the
\* selection are removed; set tells whether setEditorState is called.
removeLink(es) ==
    IF ~isCollapsed(es) THEN [set |-> TRUE, state |-> toggleLink(es, NoLink)]
    ELSE [set |-> FALSE, state |-> es]

\* onTab: setEditorState(RichUtils.onTab(event, editorState, maxIntend))
onTab(shiftKey, es) == RichUtils_onTab(shiftKey, es, maxIntend)

\* The indent buttons: RichUtils.onTab(e, editorState, maxIntend), with
\* e.shiftKey set by DecreaseIndent.
indentButton(shiftKey, es) == RichUtils_onTab(shiftKey, es, maxIntend)

\* RichUtils.onBackspace: at the start of a block that is empty or the first
\* one, a block type other than 'unstyled' is removed (tryToRemoveBlockStyle);
\* no new state otherwise.  There are no atomic blocks.
RichUtils_onBackspace(es) ==
    LET b == es.anchor.b
    IN  IF ~isCollapsed(es) \/ es.anchor.o # 0 THEN [changed |-> FALSE, state |-> es]
        ELSE IF es.blocks[b].chars # <<>> /\ b # 1 THEN [changed |-> FALSE, state |-> es]
        ELSE IF es.blocks[b].type # "unstyled"
        THEN [changed |-> TRUE,
              state |-> [es EXCEPT !.blocks[b].type = "unstyled", !.blocks[b].depth = 0,
                                   !.override = NullOverride]]
        ELSE [changed |-> FALSE, state |-> es]

\* RichUtils.handleKeyCommand(editorState, command): the new state, or none
\* (null).  A style command toggles the style; 'delete' gives none, as no
\* atomic block follows.
KeyCommands == [bold |-> "BOLD", italic |-> "ITALIC", underline |-> "UNDERLINE"]
RichUtils_handleKeyCommand(es, command) ==
    IF command \in DOMAIN KeyCommands
    THEN [changed |-> TRUE, state |-> toggleInlineStyle(es, KeyCommands[command])]
    ELSE IF command = "backspace" THEN RichUtils_onBackspace(es)
    ELSE [changed |-> FALSE, state |-> es]

\* A handleKeyCommand that gives every command to RichUtils.
handleKeyCommandOfRichUtils(command, es) ==
    LET newState == RichUtils_handleKeyCommand(es, command)
    IN  [handled |-> newState.changed, state |-> newState.state]

\* handleKeyCommand: 'backspace' is not handled; any other command is handled
\* when RichUtils.handleKeyCommand gives a new state, which is set.
handleKeyCommand(command, es) ==
    IF command = "backspace" THEN [handled |-> FALSE, state |-> es]
    ELSE LET newState == RichUtils_handleKeyCommand(es, command)
         IN  IF newState.changed THEN [handled |-> TRUE, state |-> newState.state]
             ELSE [handled |-> FALSE, state |-> es]

\* Block b and the block after it as one block, of the type of block b.
MergeBlocks(blocks, b) ==
    [i \in 1..(Len(blocks) - 1) |->
        IF i < b THEN blocks[i]
        ELSE IF i = b THEN [blocks[b] EXCEPT !.chars = @ \o blocks[b + 1].chars]
        ELSE blocks[i + 1]]

\* The editor's own backspace at a collapsed cursor: the character before it
\* goes; at the start of a block the block joins the one before; at the
\* start of the document nothing changes.
removeCharBefore(es) ==
    LET p == es.anchor
        cs == es.blocks[p.b].chars
    IN  IF p.o > 0
        THEN [es EXCEPT !.blocks[p.b].chars = SubSeq(cs, 1, p.o - 1) \o SubSeq(cs, p.o + 1, Len(cs)),
                        !.anchor = Pos(p.b, p.o - 1), !.focus = Pos(p.b, p.o - 1),
                        !.override = NullOverride]
        ELSE IF p.b > 1
        THEN [es EXCEPT !.blocks = MergeBlocks(es.blocks, p.b - 1),
                        !.anchor = Pos(p.b - 1, Len(es.blocks[p.b - 1].chars)),
                        !.focus = Pos(p.b - 1, Len(es.blocks[p.b - 1].chars)),
                        !.override = NullOverride]
        ELSE es

\* The editor's own delete at a collapsed cursor: the character after it
\* goes; at the end of a block the next block joins it; at the end of the
\* document nothing changes.
removeCharAfter(es) ==
    LET p == es.anchor
        cs == es.blocks[p.b].chars
    IN  IF p.o < Len(cs)
        THEN [es EXCEPT !.blocks[p.b].chars = SubSeq(cs, 1, p.o) \o SubSeq(cs, p.o + 2, Len(cs)),
                        !.override = NullOverride]
        ELSE IF p.b < Len(es.blocks)
        THEN [es EXCEPT !.blocks = MergeBlocks(es.blocks, p.b), !.override = NullOverride]
        ELSE es

\* What the Editor does with a command that was not handled.
keyCommandDefault(command, es) ==
    IF command = "backspace" THEN removeCharBefore(es) ELSE removeCharAfter(es)

\* ------------------------------------------------------------ React steps
\* setEditorState with a new EditorState object: a render is scheduled.
SetEditorState(nes) ==
    /\ editorState' = nes
    /\ esChanged' = TRUE
    /\ editorDirty' = TRUE
    /\ exportPending' = TRUE
    /\ phase' = "render"

\* setEditorState with the object it holds, or no call: nothing to render.
KeepEditorState ==
    UNCHANGED <<editorState, esChanged, editorDirty, exportPending, phase>>

\* The events of the URL Dialog, which it takes while it is open; it is
\* modal, so that the page then takes no other event than the editor's loss
\* of the focus.
DialogOps == {"urlInput", "addLink", "abort"}

\* A user event is handled when nothing is pending; lastOp records it and
\* the event before it.
UserEvent(op, arg) ==
    /\ phase = "idle"
    /\ op \in DialogOps => isUrlInputVisible
    /\ isUrlInputVisible => op \in DialogOps \cup {"blur"}
    /\ events < MaxEvents
    /\ events' = events + 1
    /\ lastOp' = [op |-> op, arg |-> arg, prev |-> Ev(lastOp.op, lastOp.arg)]

\* The toolbar's Bold, Italic and Underline buttons (onMouseDown).
InlineStyleMouseDown(inlineStyle) ==
    /\ UserEvent("style", inlineStyle)
    /\ SetEditorState(applyInlineStyle(renderedState, inlineStyle))
    /\ timers' = timers + 1
    /\ UNCHANGED <<renderedState, props, indicators, dialog, appState, appDirty,
                   effects, reported, baseState, conv>>

\* The toolbar's BulletedList and NumberedList buttons (onMouseDown).
ListMouseDown(type) ==
    /\ UserEvent("list", type)
    /\ SetEditorState(applyBlockStyle(renderedState, type))
    /\ timers' = timers + 1
    /\ UNCHANGED <<renderedState, props, indicators, dialog, appState, appDirty,
                   effects, reported, baseState, conv>>

\* onHeadingChange: the Dropdown reports an option other than the selected key.
onHeadingChange(option) ==
    /\ option # selectedHeading
    /\ UserEvent("heading", option)
    /\ SetEditorState(applyBlockStyle(renderedState, option))
    /\ timers' = timers + 1
    /\ selectedHeading' = option
    /\ UNCHANGED <<renderedState, props, isBoldActive, isItalicActive, isUnderlineActive,
                   isOrderedListActive, isUnorderedListActive, dialog, appState,
                   appDirty, effects, reported, baseState, conv>>

\* The Tab key in the editor (the Editor's onTab).
TabKey(shiftKey) ==
    /\ renderedState.hasFocus
    /\ UserEvent("tab", IF shiftKey THEN "shift" ELSE "plain")
    /\ IF onTab(shiftKey, renderedState).same THEN KeepEditorState
       ELSE SetEditorState(onTab(shiftKey, renderedState).state)
    /\ UNCHANGED <<renderedState, props, indicators, dialog, appState, appDirty,
                   effects, timers, reported, baseState, conv>>

\* The DecreaseIndent (shiftKey) and IncreaseIndent buttons (onMouseDown).
IndentMouseDown(shiftKey) ==
    /\ UserEvent("indent", IF shiftKey THEN "shift" ELSE "plain")
    /\ IF indentButton(shiftKey, renderedState).same THEN KeepEditorState
       ELSE SetEditorState(indentButton(shiftKey, renderedState).state)
    /\ UNCHANGED <<renderedState, props, indicators, dialog, appState, appDirty,
                   effects, timers, reported, baseState, conv>>

\* A key command of the editor.
KeyCommand(command) ==
    /\ renderedState.hasFocus
    /\ command \in {"backspace", "delete"} => isCollapsed(renderedState)
    /\ UserEvent("key", command)
    /\ LET r == handleKeyCommand(command, renderedState)
       IN  IF r.handled THEN SetEditorState(r.state)
           ELSE IF keyCommandDefault(command, renderedState) # renderedState
           THEN SetEditorState(keyCommandDefault(command, renderedState))
           ELSE KeepEditorState
    /\ UNCHANGED <<renderedState, props, indicators, dialog, appState, appDirty,
                   effects, timers, reported, baseState, conv>>

\* Text typed or pasted at the cursor (the Editor's onChange).
TypeText(name) ==
    /\ renderedState.hasFocus
    /\ isCollapsed(renderedState)
    /\ UserEvent("type", name)
    /\ SetEditorState(insertText(renderedState, Texts[name],
                                 getCurrentInlineStyle(renderedState),
                                 InheritedLink(renderedState)))
    /\ UNCHANGED <<renderedState, props, indicators, dialog, appState, appDirty,
                   effects, timers, reported, baseState, conv>>

\* handleReturn: with Shift, setEditorState(RichUtils.insertSoftNewline(
\* editorState)) and 'handled'; 'not-handled' without.  insertSoftNewline
\* gives the selection to DraftModifier.insertText, which requires a collapsed
\* range ('Target range must be collapsed for `insertText`') and throws on any
\* other: then nothing is set and nothing is returned.
handleReturn(shiftKey, es) ==
    IF shiftKey
    THEN IF isCollapsed(es)
         THEN [handled |-> TRUE, threw |-> FALSE, state |-> insertSoftNewline(es)]
         ELSE [handled |-> FALSE, threw |-> TRUE, state |-> es]
    ELSE [handled |-> FALSE, threw |-> FALSE, state |-> es]

\* The Return key: handleReturn, and for 'not-handled' the editor, which
\* splits the block at a cursor.  The user presses Return alone at a cursor
\* only; an error thrown by the handler leaves the state as it is.
PressReturn(shiftKey) ==
    /\ renderedState.hasFocus
    /\ ~shiftKey => isCollapsed(renderedState)
    /\ UserEvent("return", IF shiftKey THEN "shift" ELSE "plain")
    /\ LET r == handleReturn(shiftKey, renderedState)
       IN  IF r.threw THEN KeepEditorState
           ELSE SetEditorState(IF r.handled THEN r.state ELSE splitBlock(renderedState))
    /\ UNCHANGED <<renderedState, props, indicators, dialog, appState, appDirty,
                   effects, timers, reported, baseState, conv>>

\* The user clicks or drags in the editor: it takes the focus and the
\* selection (the Editor's onChange).
SelectRange(a, f) ==
    /\ ~renderedState.hasFocus \/ a # renderedState.anchor \/ f # renderedState.focus
    /\ UserEvent("select", "")
    /\ SetEditorState(acceptSelection(renderedState, a, f))
    /\ UNCHANGED <<renderedState, props, indicators, dialog, appState, appDirty,
                   effects, timers, reported, baseState, conv>>

Select == \E a \in Positions(renderedState), f \in Positions(renderedState) : SelectRange(a, f)

\* The editor loses the focus (the Editor's onChange).
EditorBlur ==
    /\ renderedState.hasFocus
    /\ UserEvent("blur", "")
    /\ SetEditorState([renderedState EXCEPT !.hasFocus = FALSE, !.override = NullOverride])
    /\ UNCHANGED <<renderedState, props, indicators, dialog, appState, appDirty,
                   effects, timers, reported, baseState, conv>>

\* setTimeout(() => editorRef.current?.focus(), 0): an editor without the
\* focus takes it and forces its selection.
FocusCallback ==
    /\ phase = "idle"
    /\ timers > 0
    /\ timers' = timers - 1
    /\ IF renderedState.hasFocus THEN KeepEditorState
       ELSE SetEditorState([renderedState EXCEPT !.hasFocus = TRUE, !.override = NullOverride])
    /\ UNCHANGED <<renderedState, props, indicators, dialog, appState, appDirty,
                   effects, events, lastOp, reported, baseState, conv>>

\* The AddLink button (onMouseDown): setIsUrlInputVisible(true).
OpenUrlDialog ==
    /\ UserEvent("openDialog", "")
    /\ isUrlInputVisible' = TRUE
    /\ editorDirty' = TRUE
    /\ phase' = "render"
    /\ UNCHANGED <<editorState, renderedState, props, indicators, urlValue, appState,
                   appDirty, esChanged, effects, timers, reported, exportPending,
                   baseState, conv>>

\* The texts the user leaves in the URL field.
UrlInputs == {<<>>, <<"u">>, <<"v">>}

\* The URL TextField's onChange: setUrlValue(newValue).
UrlFieldChange(newValue) ==
    /\ newValue # urlValue
    /\ UserEvent("urlInput", createEntity(newValue))
    /\ urlValue' = newValue
    /\ editorDirty' = TRUE
    /\ phase' = "render"
    /\ UNCHANGED <<editorState, renderedState, props, indicators, isUrlInputVisible,
                   appState, appDirty, esChanged, effects, timers, reported,
                   exportPending, baseState, conv>>

\* An Add Link button that closes the Dialog only when a range was linked.
AddLinkClickClosingOnLink ==
    /\ UserEvent("addLink", createEntity(urlValue))
    /\ SetEditorState(addLink(renderedState, urlValue))
    /\ isUrlInputVisible' = isCollapsed(renderedState)
    /\ urlValue' = <<>>
    /\ timers' = timers + 1
    /\ UNCHANGED <<renderedState, props, indicators, appState, appDirty, effects,
                   reported, baseState, conv>>

\* The Dialog's Add Link button: addLink(); setIsUrlInputVisible(false).
AddLinkClick ==
    /\ UserEvent("addLink", createEntity(urlValue))
    /\ SetEditorState(addLink(renderedState, urlValue))
    /\ isUrlInputVisible' = FALSE
    /\ urlValue' = <<>>
    /\ timers' = timers + 1
    /\ UNCHANGED <<renderedState, props, indicators, appState, appDirty, effects,
                   reported, baseState, conv>>

\* The Dialog's Abort button: setIsUrlInputVisible(false).
AbortClick ==
    /\ UserEvent("abort", "")
    /\ isUrlInputVisible' = FALSE
    /\ editorDirty' = TRUE
    /\ phase' = "render"
    /\ UNCHANGED <<editorState, renderedState, props, indicators, urlValue, appState,
                   appDirty, esChanged, effects, timers, reported, exportPending,
                   baseState, conv>>

\* The RemoveLink button (onMouseDown).
RemoveLinkMouseDown ==
    /\ UserEvent("removeLink", "")
    /\ IF removeLink(renderedState).set
       THEN SetEditorState(removeLink(renderedState).state)
       ELSE KeepEditorState
    /\ UNCHANGED <<renderedState, props, indicators, dialog, appState, appDirty,
                   effects, timers, reported, baseState, conv>>

\* ------------------------------------------------------------- App handlers
\* The content type Dropdown's onChange.
ContentTypeChange(option) ==
    /\ option \in ContentTypes
    /\ option # selectedContentType
    /\ UserEvent("contentType", option)
    /\ selectedContentType' = option
    /\ appDirty' = TRUE
    /\ phase' = "render"
    /\ UNCHANGED <<editorState, renderedState, props, indicators, dialog, stringContent,
                   isDarkModeEnabled, editorDirty, esChanged, effects, timers, reported,
                   exportPending, baseState, conv>>

\* The dark mode Toggle's onChange.
DarkModeChange ==
    /\ UserEvent("darkMode", "")
    /\ isDarkModeEnabled' = ~isDarkModeEnabled
    /\ appDirty' = TRUE
    /\ phase' = "render"
    /\ UNCHANGED <<editorState, renderedState, props, indicators, dialog, stringContent,
                   selectedContentType, editorDirty, esChanged, effects, timers, reported,
                   exportPending, baseState, conv>>

\* ------------------------------------------------------ render and effects
\* Props whose content type stays what the first render passed.
RenderedPropsFirstType ==
    IF appDirty
    THEN [initialContent |-> stringContent, contentType |-> props.contentType]
    ELSE props

\* The props of the TextEditor: a new object whenever the App renders.
RenderedProps ==
    IF appDirty
    THEN [initialContent |-> stringContent, contentType |-> selectedContentType]
    ELSE props

\* A document state that follows props.initialContent, as an effect on
\* the prop would make it: it is parsed again when the prop changes.
useStateFollowingProp ==
    IF RenderedProps.initialContent # props.initialContent
    THEN getEditorStateFromMarkdown(RenderedProps.initialContent)
    ELSE editorState

\* A document state made anew when the content type changes, from the
\* text the App holds, as a TextEditor keyed by the content type would be.
useStateOfNewType ==
    IF RenderedProps.contentType # props.contentType
    THEN InitialEditorState(RenderedProps.initialContent, RenderedProps.contentType)
    ELSE editorState

\* The editorState hook at a later render: the initial value is evaluated
\* and ignored.
useStateEditorState == editorState

\* Dependencies [props] only.
ExportDepsPropsOnly == appDirty

\* The export effect's dependencies [editorState, props] changed.
ExportDeps == esChanged \/ appDirty

\* An indicator effect with no dependency: it runs after the mount only.
IndicatorDepsNone == FALSE

\* The indicator effect's dependencies [applyBlockStyle, editorState] changed.
IndicatorDeps == esChanged

\* Handlers memoized with no dependency: the ones of the first render stay.
useCallbackNoDeps(current, captured) == captured

\* The document state the handlers of a render hold: useCallback(..., [editorState])
\* and the handlers made at every render close over the state of that render.
useCallback(current, captured) == current

\* React renders the App when its state changed, and the TextEditor.
Render ==
    /\ phase = "render"
    /\ props' = RenderedProps
    /\ editorState' = useStateEditorState
    /\ renderedState' = useCallback(editorState', renderedState)
    /\ exportDue' = ExportDeps
    /\ indicatorsDue' = IndicatorDeps
    /\ appDirty' = FALSE /\ editorDirty' = FALSE /\ esChanged' = FALSE
    /\ phase' = "export"
    /\ UNCHANGED <<indicators, dialog, appState, initialiseDue, timers, events, lastOp,
                   reported, exportPending, baseState, conv>>

\* An export that knows markdown only and falls back to '' otherwise.
newContentMarkdownOnly ==
    IF props.contentType = "markdown" THEN exportEditorStateToMarkdownString(renderedState)
    ELSE <<>>

\* The value the export effect computes.
newContent ==
    IF props.contentType = "markdown" THEN exportEditorStateToMarkdownString(renderedState)
    ELSE IF props.contentType = "html" THEN exportEditorStateToHtmlString(renderedState)
    ELSE <<>>

\* A state setter that makes the App render at every call.
setStringContentAlways(value) == TRUE

\* Whether setStringContent(value) makes the App render again: React leaves
\* a component alone whose state is set to the value it holds.
setStringContent(value) == value # stringContent

\* useEffect(..., [editorState, props]): props.handleContentUpdate(newContent),
\* which is the App's setStringContent.
ExportEffect ==
    /\ phase = "export"
    /\ IF exportDue
       THEN /\ delivered' = newContent
            /\ calls' = ~calls
            /\ exportPending' = FALSE
            /\ stringContent' = newContent
            /\ appDirty' = setStringContent(newContent)
       ELSE UNCHANGED <<delivered, calls, exportPending, stringContent, appDirty>>
    /\ exportDue' = FALSE
    /\ phase' = "indicators"
    /\ UNCHANGED <<editorState, renderedState, props, indicators, dialog,
                   selectedContentType, isDarkModeEnabled, editorDirty, esChanged,
                   indicatorsDue, initialiseDue, timers, events, lastOp, baseState, conv>>

\* The block type the indicator effect reads: the block of the anchor key.
currentBlockType(es) == es.blocks[es.anchor.b].type

\* An indicator effect that leaves the heading Dropdown to onHeadingChange.
IndicatorEffectKeepingHeading ==
    /\ phase = "indicators"
    /\ IF indicatorsDue
       THEN /\ isBoldActive' = ("BOLD" \in getCurrentInlineStyle(renderedState))
            /\ isItalicActive' = ("ITALIC" \in getCurrentInlineStyle(renderedState))
            /\ isUnderlineActive' = ("UNDERLINE" \in getCurrentInlineStyle(renderedState))
            /\ isUnorderedListActive' = (currentBlockType(renderedState) = "unordered-list-item")
            /\ isOrderedListActive' = (currentBlockType(renderedState) = "ordered-list-item")
            /\ selectedHeading' = selectedHeading
       ELSE UNCHANGED indicators
    /\ editorDirty' = (indicators' # indicators)
    /\ indicatorsDue' = FALSE
    /\ phase' = IF appDirty \/ editorDirty' THEN "render" ELSE "idle"
    /\ UNCHANGED <<editorState, renderedState, props, dialog, appState, appDirty,
                   esChanged, exportDue, initialiseDue, timers, events, lastOp, reported,
                   exportPending, baseState, conv>>

\* useEffect(..., [applyBlockStyle, editorState]): the indicators.
IndicatorEffect ==
    /\ phase = "indicators"
    /\ IF indicatorsDue
       THEN /\ isBoldActive' = ("BOLD" \in getCurrentInlineStyle(renderedState))
            /\ isItalicActive' = ("ITALIC" \in getCurrentInlineStyle(renderedState))
            /\ isUnderlineActive' = ("UNDERLINE" \in getCurrentInlineStyle(renderedState))
            /\ isUnorderedListActive' = (currentBlockType(renderedState) = "unordered-list-item")
            /\ isOrderedListActive' = (currentBlockType(renderedState) = "ordered-list-item")
            /\ selectedHeading' = IF currentBlockType(renderedState) = "unstyled"
                                  THEN "paragraph" ELSE currentBlockType(renderedState)
       ELSE UNCHANGED indicators
    /\ editorDirty' = (indicators' # indicators)
    /\ indicatorsDue' = FALSE
    /\ phase' = IF appDirty \/ editorDirty' THEN "render" ELSE "idle"
    /\ UNCHANGED <<editorState, renderedState, props, dialog, appState, appDirty,
                   esChanged, exportDue, initialiseDue, timers, events, lastOp, reported,
                   exportPending, baseState, conv>>

\* ---------------------------------------------------------- specification
Next ==
    \/ \E inlineStyle \in Styles : InlineStyleMouseDown(inlineStyle)
    \/ \E type \in ListTypes : ListMouseDown(type)
    \/ \E i \in 1..Len(headingOptions) : onHeadingChange(headingOptions[i])
    \/ \E shiftKey \in BOOLEAN : TabKey(shiftKey)
    \/ \E shiftKey \in BOOLEAN : IndentMouseDown(shiftKey)
    \/ \E command \in DOMAIN KeyCommands \cup {"backspace", "delete"} : KeyCommand(command)
    \/ \E name \in DOMAIN Texts : TypeText(name)
    \/ \E shiftKey \in BOOLEAN : PressReturn(shiftKey)
    \/ Select
    \/ EditorBlur
    \/ OpenUrlDialog
    \/ \E newValue \in UrlInputs : UrlFieldChange(newValue)
    \/ AddLinkClick
    \/ AbortClick
    \/ RemoveLinkMouseDown
    \/ \E option \in ContentTypes : ContentTypeChange(option)
    \/ DarkModeChange
    \/ Render
    \/ ExportEffect
    \/ IndicatorEffect
    \/ FocusCallback

Spec == Init /\ [][Next]_vars

\* The App with a user who types the letter a, presses the style buttons and
\* switches the content type. React runs a render that is due and the effects
\* of a render; nothing makes the user act.
ReactStep == Render \/ ExportEffect \/ IndicatorEffect

NextReact ==
    \/ \E inlineStyle \in Styles : InlineStyleMouseDown(inlineStyle)
    \/ TypeText("a")
    \/ \E option \in ContentTypes : ContentTypeChange(option)
    \/ FocusCallback
    \/ ReactStep

SpecReact == Init /\ [][NextReact]_vars /\ WF_vars(ReactStep)

\* ------------------------------------- the conversion adapter on its own
\* The words and the styled spans of the markdown inputs.
Words == {<<"a">>, <<"b", "c">>}
Spans ==
    UNION {{w,
            <<"*", "*">> \o w \o <<"*", "*">>,
            <<"_">> \o w \o <<"_">>,
            <<"+", "+">> \o w \o <<"+", "+">>,
            <<"[">> \o w \o <<"]", "(", "u", ")">>} : w \in Words}

\* Up to n spans with a space between them.
RECURSIVE Phrases(_)
Phrases(n) ==
    IF n <= 1 THEN Spans
    ELSE Phrases(n - 1) \cup {p \o <<" ">> \o sp : p \in Phrases(n - 1), sp \in Spans}

Prefixes ==
    {<<>>, <<"#", " ">>, <<"#", "#", " ">>, <<"#", "#", "#", " ">>, <<"-", " ">>}

IsListPrefix(p) == p # <<>> /\ p[1] # "#"

\* One line: a paragraph, a heading of level 1 to 3, an unordered or the
\* first ordered list item.
Lines(n) == {p \o ph : p \in Prefixes \cup {<<"1", ".", " ">>}, ph \in Phrases(n)}

\* Two blocks of one span each; list items follow each other on the next
\* line, and the second item of an ordered list has the number 2.
TwoLines ==
    {p1 \o s1 \o (IF IsListPrefix(p1) /\ IsListPrefix(p2) THEN <<"\n">> ELSE <<"\n", "\n">>)
        \o (IF p2 = <<"1", ".", " ">> /\ p1 = p2 THEN <<"2", ".", " ">> ELSE p2) \o s2 :
        p1 \in Prefixes \cup {<<"1", ".", " ">>}, p2 \in Prefixes \cup {<<"1", ".", " ">>},
        s1 \in Spans, s2 \in Spans}

\* "**bold** and ++underlined++"
BoldAndUnderlined ==
    <<"*", "*", "b", "o", "l", "d", "*", "*", " ", "a", "n", "d", " ",
      "+", "+", "u", "n", "d", "e", "r", "l", "i", "n", "e", "d", "+", "+">>

MarkdownInputs == Lines(MaxSpans) \cup TwoLines \cup {BoldAndUnderlined}

\* One block of the letters a, b, c, ... with UNDERLINE on letters i..j.
Letters == <<"a", "b", "c", "d", "e", "f">>
UnderlinedBlock(type, n, i, j) ==
    Block(type, 0, [k \in 1..n |->
            Char(Letters[k], IF k >= i /\ k <= j THEN {"UNDERLINE"} ELSE {}, NoLink)])
UnderlinedInputs ==
    {createWithContent(<<UnderlinedBlock(type, n, i, j)>>) :
        type \in {"unstyled", "header-one", "unordered-list-item"},
        n \in 1..(MaxChars + 1), i \in 1..(MaxChars + 1), j \in 1..(MaxChars + 1)}

InitConv ==
    /\ MountedWith(createEmpty)
    /\ \/ /\ convStage = "md"
          /\ convIn \in MarkdownInputs
          /\ convDoc = createEmpty
       \/ /\ convStage = "doc"
          /\ convIn = <<>>
          /\ convDoc \in UnderlinedInputs
    /\ convOut = <<>>

\* getEditorStateFromMarkdown applied to the input, or to the text exported.
ConvImport ==
    /\ convStage \in {"md", "doc-md"}
    /\ convDoc' = getEditorStateFromMarkdown(IF convStage = "md" THEN convIn ELSE convOut)
    /\ convIn' = IF convStage = "md" THEN convIn ELSE convOut
    /\ convStage' = IF convStage = "md" THEN "md-doc" ELSE "doc-md-doc"
    /\ UNCHANGED <<convOut, editorState, renderedState, props, indicators, dialog,
                   appState, phase, appDirty, editorDirty, esChanged, effects, timers,
                   events, lastOp, reported, exportPending, baseState>>

\* exportEditorStateToMarkdownString applied to the document state.
ConvExport ==
    /\ convStage \in {"doc", "md-doc"}
    /\ convOut' = exportEditorStateToMarkdownString(convDoc)
    /\ convStage' = IF convStage = "doc" THEN "doc-md" ELSE "md-doc-md"
    /\ UNCHANGED <<convIn, convDoc, editorState, renderedState, props, indicators, dialog,
                   appState, phase, appDirty, editorDirty, esChanged, effects, timers,
                   events, lastOp, reported, exportPending>>
    /\ baseState' = IF convStage = "doc" THEN convDoc ELSE baseState

NextConv == ConvImport \/ ConvExport

SpecConv == InitConv /\ [][NextConv]_vars

\* The texts of spaces and newlines only, the empty text among them.
BlankInputs == UNION {[1..n -> {" ", "\n"}] : n \in 0..MaxBlank}

InitBlank ==
    /\ MountedWith(createEmpty)
    /\ convStage = "md"
    /\ convIn \in BlankInputs
    /\ convDoc = createEmpty
    /\ convOut = <<>>

SpecBlank == InitBlank /\ [][NextConv]_vars

\* ------------------------------------------------- the URL dialog, opened
\* The App's editor at rest after the mount, and the AddLink button pressed
\* and rendered: the dialog is open on an empty URL field.  The user's
\* actions are counted from here.
InitDialog ==
    /\ editorState = createEmpty
    /\ renderedState = createEmpty
    /\ baseState = createEmpty
    /\ props = InitialProps
    /\ selectedHeading = "paragraph"
    /\ isBoldActive = FALSE /\ isItalicActive = FALSE /\ isUnderlineActive = FALSE
    /\ isOrderedListActive = FALSE /\ isUnorderedListActive = FALSE
    /\ urlValue = <<>> /\ isUrlInputVisible = TRUE
    /\ stringContent = <<>> /\ selectedContentType = "markdown"
    /\ isDarkModeEnabled = FALSE
    /\ phase = "idle" /\ appDirty = FALSE /\ editorDirty = FALSE
    /\ esChanged = FALSE /\ exportDue = FALSE /\ indicatorsDue = FALSE
    /\ initialiseDue = FALSE
    /\ timers = 0
    /\ events = 0
    /\ lastOp = [op |-> "openDialog", arg |-> "", prev |-> Ev("mount", "")]
    /\ delivered = <<>> /\ calls = TRUE /\ exportPending = FALSE
    /\ ConvIdle

NextDialog ==
    \/ OpenUrlDialog
    \/ \E newValue \in UrlInputs : UrlFieldChange(newValue)
    \/ AddLinkClick
    \/ AbortClick
    \/ EditorBlur
    \/ Render
    \/ ExportEffect
    \/ IndicatorEffect
    \/ FocusCallback

SpecDialog == InitDialog /\ [][NextDialog]_vars

\* ------------------------------------------- the mount on a given content
\* The initialContent a host mounts the editor with: markdown lines, a text
\* of white space, and HTML documents as the export writes them.
MountMarkdown == Lines(MaxSpans - 1) \cup {<<" ">>}
MountHtml == {stateToHTML(markdownToDraft(m)) : m \in {l \in Lines(MaxSpans - 1) : "[" \notin Range(l)}}
MountProps ==
    {[initialContent |-> m, contentType |-> "markdown"] : m \in MountMarkdown}
    \cup {[initialContent |-> h, contentType |-> "html"] : h \in MountHtml}
    \cup {[initialContent |-> <<>>, contentType |-> t] : t \in ContentTypes}

InitMount ==
    /\ \E p \in MountProps : MountedBy(p, InitialEditorState(p.initialContent, p.contentType))
    /\ ConvIdle

NextMount ==
    \/ Render
    \/ ExportEffect
    \/ IndicatorEffect
    \/ \E option \in ContentTypes : ContentTypeChange(option)

SpecMount == InitMount /\ [][NextMount]_vars

\* --------------------------------------- the editor on a given document
RECURSIVE TotalLen(_)
TotalLen(blocks) ==
    IF blocks = <<>> THEN 0 ELSE Len(blocks[1].chars) + TotalLen(Tail(blocks))

\* The texts of n characters 'a', each with one of the style sets.
CharSeqs(styleSets, n) == [1..n -> {Char("a", st, NoLink) : st \in styleSets}]

\* The blocks of the types, depths and style sets given with minLen..MaxChars
\* characters; only list items have a depth.
BlockInputs(types, depths, styleSets, minLen) ==
    {Block(t, IF t \in ListTypes THEN d ELSE 0, cs) :
        t \in types, d \in depths,
        cs \in UNION {CharSeqs(styleSets, n) : n \in minLen..MaxChars}}

\* The documents of up to MaxBlocks such blocks and MaxChars characters.
Documents(types, depths, styleSets, minLen) ==
    UNION {{doc \in [1..k -> BlockInputs(types, depths, styleSets, minLen)] :
                TotalLen(doc) <= MaxChars} : k \in 1..MaxBlocks}

\* The editor holds the document and has the focus; anchor and focus are
\* any two positions, or with forward only, the focus is not before the anchor.
Selected(doc, a, f) ==
    [createWithContent(doc) EXCEPT !.anchor = a, !.focus = f, !.hasFocus = TRUE]

MountedOn(docs, forward) ==
    /\ \E doc \in docs :
         \E a \in Positions(createWithContent(doc)), f \in Positions(createWithContent(doc)) :
            /\ forward => ~Before(f, a)
            /\ MountedWith(Selected(doc, a, f))
    /\ ConvIdle

\* The toolbar's style buttons on documents with styled and plain text.
ToggleDocuments ==
    Documents({"unstyled"}, {0}, {{}, {"BOLD", "ITALIC"}}, 0)

InitToggle == MountedOn(ToggleDocuments, TRUE)

\* The same button again, or any button first.
ToggleAgain ==
    \E inlineStyle \in Styles :
        /\ events = 0 \/ (lastOp.op = "style" /\ lastOp.arg = inlineStyle)
        /\ InlineStyleMouseDown(inlineStyle)

NextToggle == ToggleAgain \/ Render \/ ExportEffect \/ IndicatorEffect \/ FocusCallback

SpecToggle == InitToggle /\ [][NextToggle]_vars

\* The heading Dropdown on documents of paragraphs, headings and list items
\* that hold text.
HeadingDocuments ==
    Documents({"unstyled", "header-one", "ordered-list-item"}, {0}, {{}}, 1)

InitHeading == MountedOn(HeadingDocuments, FALSE)

NextHeading ==
    \/ \E i \in 1..Len(headingOptions) : onHeadingChange(headingOptions[i])
    \/ Render
    \/ ExportEffect
    \/ IndicatorEffect
    \/ FocusCallback

SpecHeading == InitHeading /\ [][NextHeading]_vars

\* Tab, Shift+Tab and the indent buttons on documents of paragraphs and list
\* items at the depths 0 and maxIntend.
IndentDocuments ==
    Documents({"unstyled", "unordered-list-item", "ordered-list-item"},
              {0, maxIntend}, {{}}, 1)

InitIndent == MountedOn(IndentDocuments, FALSE)

NextIndent ==
    \/ \E shiftKey \in BOOLEAN : TabKey(shiftKey)
    \/ \E shiftKey \in BOOLEAN : IndentMouseDown(shiftKey)
    \/ Render
    \/ ExportEffect
    \/ IndicatorEffect

SpecIndent == InitIndent /\ [][NextIndent]_vars

\* The URL Dialog and the RemoveLink button on documents of paragraphs with
\* and without links.
LinkDocuments ==
    UNION {{doc \in [1..k ->
                {Block("unstyled", 0, cs) :
                    cs \in UNION {[1..n -> {Char("a", {}, l) : l \in {NoLink, "u"}}] :
                                    n \in 0..MaxChars}}] :
                TotalLen(doc) <= MaxChars} : k \in 1..MaxBlocks}

InitLink == MountedOn(LinkDocuments, TRUE)

NextLink ==
    \/ OpenUrlDialog
    \/ \E newValue \in UrlInputs : UrlFieldChange(newValue)
    \/ AddLinkClick
    \/ AbortClick
    \/ RemoveLinkMouseDown
    \/ Render
    \/ ExportEffect
    \/ IndicatorEffect
    \/ FocusCallback

SpecLink == InitLink /\ [][NextLink]_vars

\* The Return key in paragraphs and list items, at a cursor or with a range
\* selected.
ReturnDocuments == Documents({"unstyled", "unordered-list-item"}, {0}, {{}, {"BOLD"}}, 0)

InitReturn == MountedOn(ReturnDocuments, FALSE)

NextReturn ==
    \/ \E shiftKey \in BOOLEAN : PressReturn(shiftKey)
    \/ Render
    \/ ExportEffect
    \/ IndicatorEffect

SpecReturn == InitReturn /\ [][NextReturn]_vars

\* ------------------------------------------------------------ properties
\* Whether some character of the document carries the style.
HasStyle(es, style) ==
    \E b \in 1..Len(es.blocks) : \E o \in 1..BlockLen(es, b) : style \in es.blocks[b].chars[o].style

\* The characters of a text, without their styles.
PlainText(cs) == [k \in 1..Len(cs) |-> cs[k].ch]

\* C1: for every markdown input of the bounded set (bold, italic, '++x++',
\* headings of level 1 to 3, unordered and ordered list items, links),
\* exporting the document state parsed from the input gives the input back.
C1_RoundTrip == convStage = "md-doc-md" => convOut = convIn

\* An ordered list of two items, one of them underlined, went through both
\* conversions.
C1_Witness ==
    /\ convStage = "md-doc-md"
    /\ Len(convDoc.blocks) = 2
    /\ \A b \in 1..2 : convDoc.blocks[b].type = "ordered-list-item"
    /\ HasStyle(convDoc, "UNDERLINE")
    /\ convOut = convIn

\* The markdown expected of a block whose characters lo..hi are underlined.
UnderlineWrapped(block) ==
    LET cs == block.chars
        U == {k \in 1..Len(cs) : "UNDERLINE" \in cs[k].style}
        lo == CHOOSE k \in U : \A j \in U : k <= j
        hi == CHOOSE k \in U : \A j \in U : j <= k
        text == PlainText(cs)
    IN  BlockOpen(block.type, 0, 1)
        \o (IF U = {} THEN text
            ELSE SubSeq(text, 1, lo - 1) \o <<"+", "+">> \o SubSeq(text, lo, hi)
                 \o <<"+", "+">> \o SubSeq(text, hi + 1, Len(text)))

\* The style ranges of the one block of a document, as (style, text) pairs.
StyleRanges(es) ==
    {<<t.name, SubSeq(PlainText(es.blocks[1].chars), t.from, t.to)>> :
        t \in StyleTags(es.blocks[1].chars)}

\* C8: exporting a document with an UNDERLINE range wraps exactly that text
\* in '++' and '++', and importing the export gives the UNDERLINE range
\* back; "**bold** and ++underlined++" parses to one BOLD range over "bold"
\* and one UNDERLINE range over "underlined" and is exported as it was.
C8_Underline ==
    /\ convStage \in {"doc-md", "doc-md-doc"} => convOut = UnderlineWrapped(baseState.blocks[1])
    /\ convStage = "doc-md-doc" => convDoc.blocks = baseState.blocks
    /\ (convStage \in {"md-doc", "md-doc-md"} /\ convIn = BoldAndUnderlined) =>
          /\ Len(convDoc.blocks) = 1
          /\ StyleRanges(convDoc) =
                {<<"BOLD", <<"b", "o", "l", "d">>>>,
                 <<"UNDERLINE", <<"u", "n", "d", "e", "r", "l", "i", "n", "e", "d">>>>}
    /\ (convStage = "md-doc-md" /\ convIn = BoldAndUnderlined) => convOut = BoldAndUnderlined

\* A heading whose second and third letter are underlined was exported and
\* imported again.
C8_Witness ==
    /\ convStage = "doc-md-doc"
    /\ baseState.blocks[1].type = "header-one"
    /\ {k \in 1..BlockLen(baseState, 1) : "UNDERLINE" \in baseState.blocks[1].chars[k].style} = {2, 3}
    /\ convOut = <<"#", " ", "a", "+", "+", "b", "c", "+", "+">>
    /\ convDoc.blocks = baseState.blocks

\* The serialization of a document state under a content type.
Serialized(es, contentType) ==
    IF contentType = "markdown" THEN exportEditorStateToMarkdownString(es)
    ELSE exportEditorStateToHtmlString(es)

\* Whether the document holds a character.
NonEmpty(es) == \E b \in 1..Len(es.blocks) : es.blocks[b].chars # <<>>

\* C2: every change of the document state, a change that leaves the text as
\* it was included, marks a report as due; when the next user event can be
\* handled no report is due and the value handleContentUpdate got last is
\* the conversion of the document state as it is now.
C2_EveryChangeReported ==
    /\ [](phase = "idle" =>
            /\ ~exportPending
            /\ renderedState = editorState
            /\ delivered = Serialized(editorState, props.contentType))
    /\ [][editorState' # editorState => exportPending']_vars
    /\ [][events' # events => phase = "idle"]_vars

\* A selection made in a document with text, which changes no text, has been
\* reported.
C2_Witness ==
    /\ phase = "idle"
    /\ lastOp.op = "select"
    /\ lastOp.prev.op = "type"
    /\ ~exportPending
    /\ delivered = exportEditorStateToMarkdownString(editorState)

\* C3: the document state is derived from initialContent once, at mount;
\* a later change of the initialContent prop leaves the document state as
\* it is, and the document state changes in event handlers only.
C3_InitialContentOnce ==
    /\ [][props'.initialContent # props.initialContent => editorState' = editorState]_vars
    /\ [][editorState' # editorState => phase = "idle"]_vars

\* The prop has changed to the text typed and the document state is the one
\* the typing made, cursor and focus included.
C3_Witness ==
    /\ phase = "idle"
    /\ lastOp.op = "type"
    /\ props.initialContent # InitialProps.initialContent
    /\ editorState.hasFocus
    /\ editorState.anchor.o = Len(Texts[lastOp.arg])
    /\ editorState # InitialEditorState(props.initialContent, props.contentType)

\* C4 as stated: the content type the export effect uses is the one the
\* initial state was built with.
C4_TypeFixed == [][calls' # calls => props.contentType = InitialProps.contentType]_vars

\* C4: the content type the export effect uses is the one the host has
\* selected, as of the render before it; a change of the content type changes
\* the props and leaves the document state as it is.
C4_TypeOfLastRender ==
    /\ [][calls' # calls => props.contentType = selectedContentType]_vars
    /\ [][props'.contentType # props.contentType => editorState' = editorState]_vars

\* The host changed the content type and the effect has run with it.
C4_Witness ==
    /\ phase = "idle"
    /\ lastOp.op = "contentType"
    /\ props.contentType = "html"
    /\ props.contentType # InitialProps.contentType
    /\ delivered = exportEditorStateToHtmlString(editorState)

\* C5: a value given to handleContentUpdate is the markdown of the document
\* state when the content type is 'markdown' and its HTML when it is
\* 'html'; the content type is one of the two, and for a document that holds
\* text the value is never the empty string.
C5_DeliveredIsSerialization ==
    /\ [](props.contentType \in ContentTypes)
    /\ [][calls' # calls =>
            /\ props.contentType = "markdown" =>
                  delivered' = exportEditorStateToMarkdownString(renderedState)
            /\ props.contentType = "html" =>
                  delivered' = exportEditorStateToHtmlString(renderedState)
            /\ NonEmpty(renderedState) => delivered' # <<>>]_vars

\* The HTML of a document that holds text has been delivered.
C5_Witness ==
    /\ phase = "idle"
    /\ props.contentType = "html"
    /\ NonEmpty(editorState)
    /\ delivered = exportEditorStateToHtmlString(editorState)
    /\ delivered # exportEditorStateToMarkdownString(editorState)

\* C9: in an empty editor in markdown mode, the ordered list button followed
\* by the insertion of "item" makes handleContentUpdate receive "1. item".
C9_OrderedListItem ==
    (/\ phase = "idle"
     /\ events = 2
     /\ lastOp.op = "type" /\ lastOp.arg = "item"
     /\ lastOp.prev = Ev("list", "ordered-list-item")
     /\ baseState = createEmpty)
    => delivered = <<"1", ".", " ", "i", "t", "e", "m">>

\* The button was pressed, "item" typed, and the value delivered.
C9_Witness ==
    /\ phase = "idle"
    /\ events = 2
    /\ lastOp.op = "type" /\ lastOp.arg = "item"
    /\ lastOp.prev = Ev("list", "ordered-list-item")
    /\ props.contentType = "markdown"
    /\ currentBlockType(editorState) = "ordered-list-item"
    /\ delivered = <<"1", ".", " ", "i", "t", "e", "m">>

\* The same style button was pressed twice on the document and selection
\* the editor started with, and all that followed has been done.
ToggledTwice ==
    /\ phase = "idle"
    /\ events = 2
    /\ lastOp.op = "style"
    /\ lastOp.prev = Ev("style", lastOp.arg)

\* The selected characters, as (block, offset) pairs.
SelectedChars(es) ==
    {p \in Positions(es) : p.o >= 1 /\ InSelection(es, p.b, p.o)}

\* The range starts before the end of its block, and all its characters
\* carry the style or none does.
UniformRange(es, style) ==
    /\ StartPos(es).o < BlockLen(es, StartPos(es).b)
    /\ \A p \in SelectedChars(es), q \in SelectedChars(es) :
          (style \in es.blocks[p.b].chars[p.o].style)
             <=> (style \in es.blocks[q.b].chars[q.o].style)

\* C6 as stated: for every document and selection, a partly styled range
\* included, the same style toggle twice gives the serialized text there
\* was before the first.
C6_ToggleTwice ==
    ToggledTwice =>
        /\ delivered = exportEditorStateToMarkdownString(baseState)
        /\ exportEditorStateToHtmlString(editorState) = exportEditorStateToHtmlString(baseState)

\* C6: the same style toggle twice gives the serialized text there was
\* before the first when the selection is collapsed, or when the range
\* starts before the end of its block and its characters all carry the
\* style or all lack it.
C6_ToggleTwiceUniform ==
    (ToggledTwice /\ (isCollapsed(baseState) \/ UniformRange(baseState, lastOp.arg))) =>
        /\ delivered = exportEditorStateToMarkdownString(baseState)
        /\ exportEditorStateToHtmlString(editorState) = exportEditorStateToHtmlString(baseState)

\* A range of two characters that carried the style was toggled twice.
C6_Witness ==
    /\ ToggledTwice
    /\ ~isCollapsed(baseState)
    /\ UniformRange(baseState, lastOp.arg)
    /\ Cardinality(SelectedChars(baseState)) = 2
    /\ \A p \in SelectedChars(baseState) : lastOp.arg \in baseState.blocks[p.b].chars[p.o].style
    /\ delivered = exportEditorStateToMarkdownString(baseState)

\* The number of '#' a text starts with.
RECURSIVE LeadingHashes(_)
LeadingHashes(text) ==
    IF text # <<>> /\ Head(text) = "#" THEN 1 + LeadingHashes(Tail(text)) ELSE 0

\* The position of a key in headingOptions.
OptionIndex(key) == CHOOSE i \in 1..Len(headingOptions) : headingOptions[i] = key

\* C7: once a heading option was selected, the block of the selection anchor
\* has the option's block type and its markdown starts with 0, 1, 2 or 3 '#'
\* for paragraph, header-one, header-two, header-three.
C7_HeadingApplied ==
    (lastOp.op = "heading" /\ events = 1) =>
        /\ currentBlockType(editorState) = lastOp.arg
        /\ LeadingHashes(RenderBlockText(editorState.blocks[editorState.anchor.b], 1))
              = OptionIndex(lastOp.arg) - 1

\* The depth of the anchor block.
AnchorDepth(es) == es.blocks[es.anchor.b].depth

\* C10: the depth of a list block is 0 to 4 after any sequence of Tab,
\* Shift+Tab and indent button presses; an increase at depth 4 and a
\* decrease at depth 0 leave the document as it is; a block that is not a
\* list item is never changed, and no block is added, removed or retyped.
C10_IndentBounded ==
    /\ [](\A b \in 1..Len(editorState.blocks) :
            editorState.blocks[b].type \in ListTypes => editorState.blocks[b].depth \in 0..4)
    /\ [][(events' # events /\ lastOp'.op \in {"tab", "indent"}) =>
            /\ Len(editorState'.blocks) = Len(editorState.blocks)
            /\ \A b \in 1..Len(editorState.blocks) :
                  /\ editorState'.blocks[b].type = editorState.blocks[b].type
                  /\ editorState'.blocks[b].chars = editorState.blocks[b].chars
                  /\ editorState.blocks[b].type \notin ListTypes =>
                        editorState'.blocks[b] = editorState.blocks[b]
            /\ (lastOp'.arg = "plain" /\ AnchorDepth(editorState) = 4) =>
                  editorState' = editorState
            /\ (lastOp'.arg = "shift" /\ AnchorDepth(editorState) = 0) =>
                  editorState'.blocks = editorState.blocks]_vars

\* A list item beside a paragraph: after three events, the last two of them
\* Tab, the item is at depth 4 and the document is what it was at the start.
C10_Witness ==
    /\ phase = "idle"
    /\ events = 3
    /\ lastOp.op = "tab" /\ lastOp.arg = "plain"
    /\ lastOp.prev = Ev("tab", "plain")
    /\ currentBlockType(editorState) \in ListTypes
    /\ AnchorDepth(editorState) = 4
    /\ editorState.blocks = baseState.blocks
    /\ \E b \in 1..Len(editorState.blocks) : editorState.blocks[b].type = "unstyled"

\* The characters of a document, their links apart, its block types and
\* depths.
Unlinked(es) ==
    [b \in 1..Len(es.blocks) |->
        [es.blocks[b] EXCEPT !.chars =
            [o \in 1..Len(es.blocks[b].chars) |-> [es.blocks[b].chars[o] EXCEPT !.link = NoLink]]]]

\* The link of character o of block b.
LinkAt(es, b, o) == es.blocks[b].chars[o].link

\* C11: the Dialog's Add Link button, pressed with the URL u in the field
\* while a range is selected, gives a document whose text, styles and blocks
\* are what they were, in which every character of the range carries the
\* link with url u and every other character the link it had, or none.
C11_AddLink ==
    [][(events' # events /\ lastOp'.op = "addLink" /\ ~isCollapsed(editorState)) =>
        /\ Unlinked(editorState') = Unlinked(editorState)
        /\ \A p \in Positions(editorState) :
              p.o >= 1 =>
                 LinkAt(editorState', p.b, p.o) =
                    IF InSelection(editorState, p.b, p.o)
                    THEN (IF urlValue = <<>> THEN "" ELSE urlValue[1])
                    ELSE LinkAt(editorState, p.b, p.o)]_vars

\* The url v was typed and confirmed on a range that is a part of the text:
\* some character has the link v now and some character has not.
C11_Witness ==
    /\ phase = "idle"
    /\ lastOp.op = "addLink" /\ lastOp.arg = "v"
    /\ lastOp.prev = Ev("urlInput", "v")
    /\ ~isCollapsed(baseState)
    /\ Unlinked(editorState) = Unlinked(baseState)
    /\ \E p \in SelectedChars(baseState) : LinkAt(editorState, p.b, p.o) = "v"
    /\ \E p \in Positions(editorState) : p.o >= 1 /\ LinkAt(editorState, p.b, p.o) # "v"
    /\ ~isUrlInputVisible

\* C12: the RemoveLink button with a collapsed selection, inside a link too,
\* sets no document state; with a range selected it clears the link of every
\* character of the range and leaves every other character, the text, the
\* styles and the selection as they were.
C12_RemoveLink ==
    [][(events' # events /\ lastOp'.op = "removeLink") =>
        /\ isCollapsed(editorState) => UNCHANGED <<editorState, exportPending, phase>>
        /\ ~isCollapsed(editorState) =>
              /\ exportPending'
              /\ Unlinked(editorState') = Unlinked(editorState)
              /\ editorState'.anchor = editorState.anchor
              /\ editorState'.focus = editorState.focus
              /\ \A p \in Positions(editorState) :
                    p.o >= 1 =>
                       LinkAt(editorState', p.b, p.o) =
                          IF InSelection(editorState, p.b, p.o) THEN NoLink
                          ELSE LinkAt(editorState, p.b, p.o)]_vars

\* A link of two characters, one of them selected, lost the selected one.
C12_Witness ==
    /\ phase = "idle"
    /\ events = 1
    /\ lastOp.op = "removeLink"
    /\ Cardinality(SelectedChars(baseState)) = 1
    /\ \A p \in Positions(baseState) : p.o >= 1 => LinkAt(baseState, p.b, p.o) = "u"
    /\ \E p \in Positions(editorState) : p.o >= 1 /\ LinkAt(editorState, p.b, p.o) = "u"
    /\ \A p \in SelectedChars(baseState) : LinkAt(editorState, p.b, p.o) = NoLink

\* C14: getEditorStateFromMarkdown of a text of spaces and newlines only,
\* whose parse has no blocks, gives the empty document state: one empty
\* 'unstyled' block, the cursor at its start; its markdown is the empty text.
C14_BlankIsEmpty ==
    /\ convStage \in {"md-doc", "md-doc-md"} =>
          /\ markdownToDraft(convIn) = <<>>
          /\ convDoc = createEmpty
    /\ convStage = "md-doc-md" => convOut = <<>>

\* A text of two lines of spaces was parsed and exported.
C14_Witness ==
    /\ convStage = "md-doc-md"
    /\ convIn = <<" ", "\n", " ", " ">>
    /\ convDoc.blocks = <<Block("unstyled", 0, <<>>)>>
    /\ convOut = <<>>

\* C15: the document state the editor is mounted with is
\* getEditorStateFromMarkdown(initialContent) when initialContent is not
\* empty and contentType is 'markdown', getEditorStateFromHtml(initialContent)
\* when it is not empty and contentType is 'html', and the empty document
\* when initialContent is ''; the mount gives no other state.
AtMount == lastOp.op = "mount" /\ exportPending
C15_InitialState ==
    AtMount =>
        editorState =
            (CASE props.initialContent = <<>> -> createEmpty
               [] props.initialContent # <<>> /\ props.contentType = "markdown" ->
                    getEditorStateFromMarkdown(props.initialContent)
               [] props.initialContent # <<>> /\ props.contentType = "html" ->
                    getEditorStateFromHtml(props.initialContent))

\* Mounted with an HTML heading: the document is that heading.
C15_Witness ==
    /\ AtMount
    /\ props.contentType = "html"
    /\ props.initialContent = StartTag("h1") \o StartTag("strong") \o <<"a">>
                                \o EndTag("strong") \o EndTag("h1")
    /\ editorState.blocks = <<Block("header-one", 0, <<Char("a", {"BOLD"}, NoLink)>>)>>

\* C16: whenever the editor is at rest (nothing left to render, no effect
\* left to run), the toolbar indicators agree with the document state: the
\* bold, italic and underline indicators say whether the style is in the
\* current inline style, the list indicators whether the anchor block is a
\* list item of the kind, and selectedHeading is 'paragraph' for an
\* 'unstyled' anchor block and the block type otherwise.
C16_IndicatorsAgree ==
    phase = "idle" =>
        /\ isBoldActive = ("BOLD" \in getCurrentInlineStyle(editorState))
        /\ isItalicActive = ("ITALIC" \in getCurrentInlineStyle(editorState))
        /\ isUnderlineActive = ("UNDERLINE" \in getCurrentInlineStyle(editorState))
        /\ isUnorderedListActive
             = (editorState.blocks[editorState.anchor.b].type = "unordered-list-item")
        /\ isOrderedListActive
             = (editorState.blocks[editorState.anchor.b].type = "ordered-list-item")
        /\ selectedHeading
             = IF editorState.blocks[editorState.anchor.b].type = "unstyled"
               THEN "paragraph"
               ELSE editorState.blocks[editorState.anchor.b].type

\* At rest after two actions of the user, on a bold position of a list item.
C16_Witness ==
    /\ phase = "idle"
    /\ events >= 2
    /\ isBoldActive /\ ~isItalicActive
    /\ isUnorderedListActive
    /\ selectedHeading = "unordered-list-item"

\* The steps C17 names as leaving the document state alone: the AddLink
\* button, a change of the URL field, Abort, the two effects and a deferred
\* focus callback.
FrameStep ==
    \/ events' # events /\ lastOp'.op \in {"openDialog", "urlInput", "abort"}
    \/ phase \in {"export", "indicators"}
    \/ timers' < timers

\* C17: opening the URL dialog, typing in the URL field, pressing Abort, the
\* indicator effect, the export effect and the deferred focus callbacks leave
\* the document state unchanged: its content and the formatting it holds
\* (the inline style set for the next input) are what they were.
C17_FrameSteps ==
    [][FrameStep =>
          /\ editorState'.blocks = editorState.blocks
          /\ editorState'.override = editorState.override]_vars

\* C18: with the App as host, the renders and effects that follow an action
\* of the user come to rest, and at rest the App's stringContent is the export
\* of the current document state in the content type selected.
C18_ChainComesToRest ==
    /\ (phase # "idle") ~> (phase = "idle")
    /\ [](phase = "idle" =>
            /\ props.contentType = selectedContentType
            /\ stringContent = Serialized(editorState, selectedContentType))

\* At rest after the user typed in HTML mode: the preview holds the HTML.
C18_Witness ==
    /\ phase = "idle"
    /\ events >= 2
    /\ selectedContentType = "html"
    /\ NonEmpty(editorState)
    /\ stringContent = exportEditorStateToHtmlString(editorState)
    /\ props.initialContent = stringContent

\* The events that run a toolbar handler or handleReturn.
HandlerOps == {"style", "list", "heading", "tab", "indent", "addLink", "removeLink", "return"}

\* C19: no update of the document state is lost: whenever a toolbar handler
\* (a style, list, heading or indent button, the Tab key, Add Link, Remove
\* Link) or handleReturn runs, the document state it holds and computes from
\* is the most recently set document state.
C19_HandlersSeeLatest ==
    [][(events' # events /\ lastOp'.op \in HandlerOps) => renderedState = editorState]_vars

\* The Bold button was pressed right after the list button: the document the
\* Bold handler made still is the list item of the action before.
C19_Witness ==
    /\ lastOp.op = "style" /\ lastOp.arg = "BOLD"
    /\ lastOp.prev.op = "list"
    /\ phase = "render"
    /\ editorState.blocks[1].type = "unordered-list-item"
    /\ "BOLD" \in getCurrentInlineStyle(editorState)

\* C20: when the user selects the other content type in the App while the
\* editor holds content, no step from the selection to the rest that follows
\* changes the document state, and at that rest the App's stringContent is the
\* serialization of this document in the type selected: the text exported
\* before is not parsed again.
C20_TypeSwitchKeepsDocument ==
    /\ [][(lastOp'.op = "contentType" /\ NonEmpty(editorState)
            /\ (events' # events \/ phase # "idle"))
          => editorState' = editorState]_vars
    /\ []((phase = "idle" /\ lastOp.op = "contentType" /\ NonEmpty(editorState))
          => stringContent = Serialized(editorState, lastOp.arg))

\* The user typed in markdown mode and then selected HTML: the document is
\* the one typed and the App holds its HTML.
C20_Witness ==
    /\ phase = "idle"
    /\ lastOp.op = "contentType" /\ lastOp.arg = "html"
    /\ lastOp.prev.op = "type"
    /\ PlainText(editorState.blocks[1].chars) = Texts[lastOp.prev.arg]
    /\ stringContent = StartTag("p") \o Texts[lastOp.prev.arg] \o EndTag("p")

\* C21: whenever the editor is at rest, selectedHeading is one of the four
\* keys the heading dropdown offers (paragraph, header-one, header-two,
\* header-three), whatever the block type at the cursor.
C21_HeadingIsOption ==
    phase = "idle" => \E i \in 1..Len(headingOptions) : selectedHeading = headingOptions[i]

\* C22: the two list indicators are never both on, and while one of them is
\* on at rest the heading indicator shows no heading level.
C22_ListIndicatorsExclusive ==
    /\ ~(isOrderedListActive /\ isUnorderedListActive)
    /\ (phase = "idle" /\ (isOrderedListActive \/ isUnorderedListActive))
          => selectedHeading \notin HeaderTypes

\* At rest in an ordered list item that was a heading before.
C22_Witness ==
    /\ phase = "idle"
    /\ isOrderedListActive /\ ~isUnorderedListActive
    /\ lastOp.op = "list" /\ lastOp.prev.op = "heading"
    /\ selectedHeading = "ordered-list-item"

\* C22 as stated: in every reachable state the two list indicators are not
\* both on, and while one of them is on the heading indicator shows no
\* heading level.
C22_ListIndicatorsAlways ==
    /\ ~(isOrderedListActive /\ isUnorderedListActive)
    /\ (isOrderedListActive \/ isUnorderedListActive) => selectedHeading \notin HeaderTypes

\* C23: every time the URL dialog becomes visible its URL field is empty:
\* urlValue is '' when isUrlInputVisible turns from false to true.
C23_DialogOpensEmpty ==
    [][(~isUrlInputVisible /\ isUrlInputVisible') => urlValue' = <<>>]_vars

\* C24: a click on Add Link or on Abort closes the URL dialog, whether or not
\* a range was linked; Abort leaves the document state as it is; and the
\* dialog is open only from a press of the toolbar's AddLink button to the
\* next click on Add Link or Abort.
C24_DialogCloses ==
    /\ [][(events' # events /\ lastOp'.op \in {"addLink", "abort"})
            => ~isUrlInputVisible']_vars
    /\ [][(events' # events /\ lastOp'.op = "abort") => editorState' = editorState]_vars
    /\ [][isUrlInputVisible' # isUrlInputVisible =>
            /\ events' # events
            /\ isUrlInputVisible' => lastOp'.op = "openDialog"
            /\ ~isUrlInputVisible' => lastOp'.op \in {"addLink", "abort"}]_vars
    /\ [](isUrlInputVisible => lastOp.op \in {"openDialog", "urlInput", "blur"})

\* The user typed a URL and pressed Abort: the dialog is closed and the
\* document is the one the editor was mounted on.
C24_Witness ==
    /\ lastOp.op = "abort" /\ lastOp.prev.op = "urlInput"
    /\ ~isUrlInputVisible
    /\ urlValue = <<"u">>
    /\ editorState = baseState
    /\ ~isCollapsed(editorState)

\* C25: handleKeyCommand does not handle 'backspace' and sets no state for
\* it, in every state; any other command it handles exactly when
\* RichUtils.handleKeyCommand gives a new state, which it sets; a command it
\* does not handle is left to the editor, and the handler sets nothing.
C25_KeyCommandHandled ==
    [][(events' # events /\ lastOp'.op = "key") =>
          LET command == lastOp'.arg
              r == handleKeyCommand(command, renderedState)
              fromRichUtils == RichUtils_handleKeyCommand(renderedState, command)
          IN  /\ command = "backspace" => ~r.handled
              /\ command # "backspace" => (r.handled <=> fromRichUtils.changed)
              /\ r.handled => editorState' = fromRichUtils.state
              /\ ~r.handled =>
                    /\ r.state = renderedState
                    /\ editorState' = keyCommandDefault(command, renderedState)]_vars

\* Backspace at the start of an empty heading: the handler declined, the
\* editor had nothing to remove, and the heading is still there.
C25_Witness ==
    /\ lastOp.op = "key" /\ lastOp.arg = "backspace"
    /\ lastOp.prev.op = "heading"
    /\ editorState.hasFocus
    /\ editorState.blocks = <<Block("header-one", 0, <<>>)>>

\* C26: handleReturn returns 'handled' exactly when the Shift key is held,
\* and has then put a soft newline into the current block, the number of
\* blocks being what it was; without Shift it returns 'not-handled' and sets
\* no state itself.
C26_SoftNewline ==
    [][(events' # events /\ lastOp'.op = "return") =>
          LET r == handleReturn(lastOp'.arg = "shift", renderedState)
          IN  /\ r.handled <=> lastOp'.arg = "shift"
              /\ lastOp'.arg = "shift" =>
                    /\ Len(editorState'.blocks) = Len(editorState.blocks)
                    /\ TotalLen(editorState'.blocks) = TotalLen(editorState.blocks) + 1
                    /\ editorState'.anchor.o >= 1
                    /\ editorState'.blocks[editorState'.anchor.b]
                            .chars[editorState'.anchor.o].ch = "\n"
              /\ lastOp'.arg # "shift" => r.state = renderedState]_vars

\* ----------------------------- the TextEditor that an effect initialises
\* Editor.tsx and the form that followed it hold EditorState.createEmpty()
\* at the first render and set the parsed initialMarkdownContent in an
\* effect. Their App gives its markdown state as initialMarkdownContent and
\* setMarkdown as handleContentUpdate; they have no indicator effect.

\* useEffect(..., []) of the later form: the effect runs after the mount only.
InitialisationDepsOnce == FALSE

\* useEffect(..., [props.initialMarkdownContent]) of Editor.tsx.
InitialisationDeps == RenderedProps.initialContent # props.initialContent

\* React renders the App when its markdown changed, and the TextEditor.
EditorRender(initialisationDeps) ==
    /\ phase = "render"
    /\ props' = RenderedProps
    /\ editorState' = useStateEditorState
    /\ renderedState' = useCallback(editorState', renderedState)
    /\ exportDue' = ExportDeps
    /\ initialiseDue' = initialisationDeps
    /\ appDirty' = FALSE /\ editorDirty' = FALSE /\ esChanged' = FALSE
    /\ phase' = "export"
    /\ UNCHANGED <<indicators, dialog, appState, indicatorsDue, timers, events, lastOp,
                   reported, exportPending, baseState, conv>>

\* useEffect(..., [editorState, props]): props.handleContentUpdate(newMarkdown),
\* which is the App's setMarkdown.
EditorExportEffect ==
    /\ phase = "export"
    /\ IF exportDue
       THEN /\ delivered' = exportEditorStateToMarkdownString(renderedState)
            /\ calls' = ~calls
            /\ exportPending' = FALSE
            /\ stringContent' = delivered'
            /\ appDirty' = setStringContent(delivered')
       ELSE UNCHANGED <<delivered, calls, exportPending, stringContent, appDirty>>
    /\ exportDue' = FALSE
    /\ phase' = "initialise"
    /\ UNCHANGED <<editorState, renderedState, props, indicators, dialog,
                   selectedContentType, isDarkModeEnabled, editorDirty, esChanged,
                   indicatorsDue, initialiseDue, timers, events, lastOp, baseState, conv>>

\* The initialisation effect: nothing for an empty initialMarkdownContent,
\* else setEditorState(getEditorStateFromMarkdown(props.initialMarkdownContent)).
EditorInitialisationEffect ==
    /\ phase = "initialise"
    /\ IF initialiseDue /\ props.initialContent # <<>>
       THEN /\ editorState' = getEditorStateFromMarkdown(props.initialContent)
            /\ esChanged' = TRUE
            /\ editorDirty' = TRUE
            /\ exportPending' = TRUE
       ELSE UNCHANGED <<editorState, esChanged, editorDirty, exportPending>>
    /\ initialiseDue' = FALSE
    /\ phase' = IF appDirty \/ editorDirty' THEN "render" ELSE "idle"
    /\ UNCHANGED <<renderedState, props, indicators, dialog, appState, appDirty,
                   exportDue, indicatorsDue, timers, events, lastOp, reported,
                   baseState, conv>>

\* The App renders once with markdown = ''; both effects are due.
InitEditor ==
    /\ editorState = createEmpty
    /\ renderedState = createEmpty
    /\ baseState = createEmpty
    /\ props = InitialProps
    /\ selectedHeading = "paragraph"
    /\ isBoldActive = FALSE /\ isItalicActive = FALSE /\ isUnderlineActive = FALSE
    /\ isOrderedListActive = FALSE /\ isUnorderedListActive = FALSE
    /\ urlValue = <<>> /\ isUrlInputVisible = FALSE
    /\ stringContent = <<>> /\ selectedContentType = "markdown"
    /\ isDarkModeEnabled = FALSE
    /\ phase = "export" /\ appDirty = FALSE /\ editorDirty = FALSE
    /\ esChanged = FALSE /\ exportDue = TRUE /\ indicatorsDue = FALSE
    /\ initialiseDue = TRUE
    /\ timers = 0
    /\ events = 0 /\ lastOp = [op |-> "mount", arg |-> "", prev |-> Ev("none", "")]
    /\ delivered = <<>> /\ calls = FALSE /\ exportPending = TRUE
    /\ ConvIdle

\* What React runs in Editor.tsx, and in the later form.
EditorStep ==
    EditorRender(InitialisationDeps) \/ EditorExportEffect \/ EditorInitialisationEffect

EditorStepOnce ==
    EditorRender(InitialisationDepsOnce) \/ EditorExportEffect \/ EditorInitialisationEffect

\* The user types a text, places the selection and leaves the editor.
EditorUser == (\E name \in DOMAIN Texts : TypeText(name)) \/ Select \/ EditorBlur

NextEditor == EditorUser \/ EditorStep

NextEditorOnce == EditorUser \/ EditorStepOnce

\* React runs a render that is due and the effects of a render.
SpecEditor == InitEditor /\ [][NextEditor]_vars /\ WF_vars(EditorStep)

SpecEditorOnce == InitEditor /\ [][NextEditorOnce]_vars /\ WF_vars(EditorStepOnce)

\* C27: in the TextEditor that an effect initialises, mounted in the App
\* that gives every reported markdown back as initialMarkdownContent, the
\* initialisation effect sets no document state after the user typed, and
\* the renders and effects that follow an event come to rest.
C27_InitialisedOnce ==
    /\ [][(phase = "initialise" /\ lastOp.op = "type") => editorState' = editorState]_vars
    /\ [](phase # "idle" => <>(phase = "idle"))

=========================================================================
